---- MODULE Spec2Model ----
(***************************************************************************)
(* A model of the GladGrade REST backend (routes -> middleware ->          *)
(* controllers -> services -> PostgreSQL).                                  *)
(*                                                                         *)
(* The tables are variables holding sets of rows; a row is a record whose  *)
(* fields carry the column names of the SQL text (user_id, rating_value,   *)
(* ...).  db.query is src/config/db.js's pass-through to the pool: the     *)
(* model gives each SQL statement the meaning PostgreSQL gives it and      *)
(* hands the service the rows, as the services read them (result.length,   *)
(* result[0], row.rating_value).  db.js exports no `transaction`.          *)
(*                                                                         *)
(* Spec       : the HTTP handlers, one action per handler (middleware      *)
(*              chain, controller and the service calls it makes).         *)
(* PointsSpec : concurrent addGladPoints calls, one step per await.        *)
(* ListSpec   : the paged list and aggregation queries over stored rows.   *)
(***************************************************************************)
EXTENDS Integers, Sequences, FiniteSets, TLC

VARIABLES
    users,                  \* table users (joined with roles.role)
    secondary_user_roles,   \* table secondary_user_roles (joined with roles.role)
    consumer_ratings,       \* table consumer_ratings
    consumer_reviews,       \* table consumer_reviews
    image_urls,             \* table image_urls
    consumer_glad_points,   \* table consumer_glad_points
    consumer_survey_question_answers,   \* table consumer_survey_question_answers
    ads,                    \* table ads
    messages,               \* table messages (joined with message_categories.name)
    user_activity_logs,     \* table user_activity_logs
    deleted_users,          \* table deleted_users
    businesses,             \* table businesses
    serial,                 \* the id sequence of each table: the last id handed out
    resp,                   \* the last HTTP exchange: request and response
    calls,                  \* PointsSpec, GuestSpec, RaceSpec: the calls in flight
    listed,                 \* ListSpec: the last list / aggregation call and its result
    deletions,              \* UserSpec: the markUserAsDeleted calls between their statements
    failure                 \* ErrorSpec: the error of a failed statement on its way to the client

tables == <<users, secondary_user_roles, consumer_ratings, consumer_reviews,
            image_urls, consumer_glad_points, consumer_survey_question_answers, ads,
            messages, user_activity_logs, deleted_users, businesses>>
vars == <<users, secondary_user_roles, consumer_ratings, consumer_reviews,
          image_urls, consumer_glad_points, consumer_survey_question_answers, ads,
          messages, user_activity_logs, deleted_users, businesses, serial, resp, calls,
          listed, deletions, failure>>

----------------------------------------------------------------------------
(* Bounds of the model. *)

MaxRatings == 1      \* rows consumer_ratings may hold
MaxReviews == 1      \* rows consumer_reviews may hold
MaxImages == 1       \* rows image_urls may hold
MaxAds == 1          \* rows ads may hold

(* Program constants. *)

GladPointsAward == 10     \* const points = 10
MinRating == 1            \* isInt({ min: 1, max: 5 })
MaxRating == 5
DefaultPage == 1          \* page = 1
DefaultLimit == 10        \* limit = 10

(* JavaScript values that are no row and no number, and SQL's NULL; the numbers *)
(* standing for them lie outside every set of inputs, ids and counts.          *)
null == [isNull |-> TRUE]
undefined == -1001
NaN == -1000
abc == -1003       \* a route parameter that is not a number, such as 'abc'
NULL == -1002

(* HTTP statuses; NEXT is the middleware calling next(). *)
NEXT == 0

----------------------------------------------------------------------------
(* Helpers on sets and rows. *)

RECURSIVE SetToSeq(_)
SetToSeq(S) == IF S = {} THEN <<>>
               ELSE LET x == CHOOSE y \in S : TRUE IN <<x>> \o SetToSeq(S \ {x})

(* obj.key in JavaScript: the field, or undefined when the object has none. *)
Prop(obj, key) == IF key \in DOMAIN obj THEN obj[key] ELSE undefined

(* parseInt of a number, of undefined, or of text that holds no number. *)
parseInt(x) == IF x = undefined \/ x = NaN \/ x = abc THEN NaN ELSE x

(* a || b for a value that is undefined, null or a number. *)
OrElse(a, b) == IF a = undefined \/ a = NULL \/ a = 0 \/ a = NaN THEN b ELSE a

----------------------------------------------------------------------------
(* Authentication and the role gate: src/middleware/auth.js *)

(* The users the database holds; firebase_uid is the identity provider's subject id. *)
InitUsers ==
    { [id |-> 1, firebase_uid |-> "uid1", primary_role_id |-> 1, role |-> "User",
       is_deleted |-> FALSE, is_active |-> TRUE, first_name |-> <<"a", "l">>, last_name |-> <<"b">>,
       email |-> <<"a", "b">>],
      [id |-> 2, firebase_uid |-> "uid2", primary_role_id |-> 1, role |-> "User",
       is_deleted |-> FALSE, is_active |-> TRUE, first_name |-> <<"c">>, last_name |-> <<"d">>,
       email |-> <<"c", "d">>],
      [id |-> 3, firebase_uid |-> "uid3", primary_role_id |-> 2, role |-> "Admin",
       is_deleted |-> FALSE, is_active |-> TRUE, first_name |-> <<"e">>, last_name |-> <<"a">>,
       email |-> <<"e", "a">>],
      [id |-> 4, firebase_uid |-> "uid4", primary_role_id |-> 1, role |-> "User",
       is_deleted |-> TRUE, is_active |-> FALSE, first_name |-> <<"a">>, last_name |-> <<"f">>,
       email |-> <<"a", "f">>] }

InitSecondaryRoles == { [user_id |-> 2, role |-> "Moderator"] }

(* The Authorization header of a request, as admin.auth().verifyIdToken sees it. *)
Tokens == { [kind |-> "none", uid |-> ""], [kind |-> "invalid", uid |-> ""] }
          \cup { [kind |-> "valid", uid |-> u] : u \in {"uid1", "uid2", "uid3", "uidX"} }

getUserRole(uid) ==
    LET userQuery == { u \in users : u.firebase_uid = uid } IN
    IF userQuery = {} THEN null
    ELSE LET user == CHOOSE u \in userQuery : TRUE
             secondaryRolesQuery == { s \in secondary_user_roles : s.user_id = user.id }
         IN [ userId |-> user.id,
              primaryRoleId |-> user.primary_role_id,
              roles |-> <<user.role>> \o SetToSeq({ s.role : s \in secondaryRolesQuery }) ]

(* -> [status, user]: status NEXT and req.user, or the status answered. *)
verifyToken(token) ==
    IF token.kind = "none" THEN [status |-> 401, user |-> null]
    ELSE IF token.kind = "invalid" THEN [status |-> 401, user |-> null]
    ELSE LET userRoleInfo == getUserRole(token.uid) IN
         IF userRoleInfo = null THEN [status |-> 403, user |-> null]
         ELSE [status |-> NEXT, user |-> userRoleInfo]

hasPermission(user, allowedRoles) ==
    \E i \in 1..Len(user.roles) : user.roles[i] \in allowedRoles

(* getUserRole with its catch block: when a query fails (answered is      *)
(* FALSE) the error is logged and null is returned.                        *)
getUserRole_catch(uid, answered) ==
    IF ~ answered THEN null ELSE getUserRole(uid)

(* verifyToken over a database that answers or not. *)
verifyToken_catch(token, answered) ==
    IF token.kind = "none" THEN [status |-> 401, user |-> null]
    ELSE IF token.kind = "invalid" THEN [status |-> 401, user |-> null]
    ELSE LET userRoleInfo == getUserRole_catch(token.uid, answered) IN
         IF userRoleInfo = null THEN [status |-> 403, user |-> null]
         ELSE [status |-> NEXT, user |-> userRoleInfo]

checkRole_primaryOnly(allowedRoles, user) ==
    IF user = null THEN 401
    ELSE IF user.roles[1] \in allowedRoles THEN NEXT
    ELSE 403

checkRole(allowedRoles, user) ==
    IF user = null THEN 401
    ELSE IF hasPermission(user, allowedRoles) THEN NEXT
    ELSE 403

----------------------------------------------------------------------------
(* The database as a service sees it between two awaits, and what a service *)
(* call comes back with: a value, or an error thrown (with the SQLSTATE of  *)
(* a database error, "TypeError" for a JavaScript one).                     *)

Cur == [ ratings |-> consumer_ratings, reviews |-> consumer_reviews,
         images |-> image_urls, points |-> consumer_glad_points,
         answers |-> consumer_survey_question_answers, ads |-> ads,
         serial |-> serial ]

Ok(value, t) == [threw |-> FALSE, code |-> "", value |-> value, t |-> t]
Throw(code, t) == [threw |-> TRUE, code |-> code, value |-> null, t |-> t]

(* What `module.exports` of config/db.js holds. *)
db_exports == {"query"}

(* db.transaction(callback): the callback's statements run as one unit; a   *)
(* property db.js does not export is undefined, and calling it throws.      *)
db_transaction(t, after) ==
    IF "transaction" \in db_exports THEN Ok(TRUE, after)
    ELSE Throw("TypeError", t)

UserIds == { u.id : u \in users }
ImageTypeIds == {1}       \* rows of image_types
DormIds == {1}            \* rows of edu_dorms

(* The schema's foreign keys: a reference column of a new row holds NULL or *)
(* the id of a row of the table it references.                              *)
ForeignKeysHold(t, row) ==
    /\ "user_id" \in DOMAIN row => row.user_id \in UserIds
    /\ "consumer_rating_id" \in DOMAIN row =>
           row.consumer_rating_id \in { r.id : r \in t.ratings } \cup {NULL}
    /\ "consumer_review_id" \in DOMAIN row =>
           row.consumer_review_id \in { rv.id : rv \in t.reviews } \cup {NULL}
    /\ "image_type_id" \in DOMAIN row => row.image_type_id \in ImageTypeIds
    /\ "edu_dorm_id" \in DOMAIN row => row.edu_dorm_id \in DormIds \cup {NULL}

(* The schema's unique constraint on consumer_glad_points: one row per      *)
(* (consumer_rating_id, user_id).                                           *)
UniqueGladPoints(t, row) ==
    ~ \E g \in t.points : /\ g.consumer_rating_id = row.consumer_rating_id
                           /\ g.user_id = row.user_id

----------------------------------------------------------------------------
(* src/services/ratingService.js *)

getRatingById(t, id) ==
    IF parseInt(id) = NaN THEN Throw("22P02", t)
    ELSE LET result == { r \in t.ratings : r.id = parseInt(id) } IN
         IF result = {} THEN Ok(null, t)
         ELSE Ok(CHOOSE r \in result : TRUE, t)

createRating(t, ratingData) ==
    LET row == [ id |-> t.serial.ratings + 1,
                 business_type_id |-> IF ratingData.businessTypeId = undefined THEN NULL
                                      ELSE parseInt(ratingData.businessTypeId),
                 place_id |-> ratingData.placeId,
                 rating_value |-> parseInt(ratingData.ratingValue),
                 user_id |-> parseInt(ratingData.userId) ]
    IN IF row.rating_value = NaN \/ row.user_id = NaN THEN Throw("22P02", t)
       ELSE IF ~ ForeignKeysHold(t, row) THEN Throw("23503", t)
       ELSE getRatingById([t EXCEPT !.ratings = @ \cup {row},
                                    !.serial.ratings = @ + 1], row.id)

updateRating(t, id, ratingData) ==
    IF parseInt(ratingData.ratingValue) = NaN \/ parseInt(id) = NaN THEN Throw("22P02", t)
    ELSE getRatingById(
           [t EXCEPT !.ratings =
               { IF r.id = parseInt(id)
                 THEN [r EXCEPT !.rating_value = parseInt(ratingData.ratingValue)]
                 ELSE r : r \in @ }], id)

(* The statements of deleteRating's transaction callback, in order. *)
deleteRating_transaction(t, id, reviewsResult) ==
    LET reviewIds == { rv.id : rv \in reviewsResult }
        t1 == IF reviewsResult # {}
              THEN [t EXCEPT !.images = { i \in @ : i.consumer_review_id \notin reviewIds },
                             !.reviews = { rv \in @ : rv.consumer_rating_id # parseInt(id) }]
              ELSE t
        t2 == [t1 EXCEPT !.images = { i \in @ : i.consumer_rating_id # parseInt(id) }]
        t3 == [t2 EXCEPT !.answers = { a \in @ : a.consumer_rating_id # parseInt(id) }]
        t4 == [t3 EXCEPT !.points = { g \in @ : g.consumer_rating_id # parseInt(id) }]
    IN [t4 EXCEPT !.ratings = { r \in @ : r.id # parseInt(id) }]

deleteRating(t, id) ==
    LET reviewsResult == { rv \in t.reviews : rv.consumer_rating_id = parseInt(id) }
    IN db_transaction(t, deleteRating_transaction(t, id, reviewsResult))

getReviewById(t, id) ==
    IF parseInt(id) = NaN THEN Throw("22P02", t)
    ELSE LET result == { rv \in t.reviews : rv.id = parseInt(id)
                           /\ \E cr \in t.ratings : cr.id = rv.consumer_rating_id }
         IN IF result = {} THEN Ok(null, t)
            ELSE LET rv == CHOOSE x \in result : TRUE
                     cr == CHOOSE x \in t.ratings : x.id = rv.consumer_rating_id
                     images == { i \in t.images : i.consumer_review_id = parseInt(id)
                                                    /\ i.is_active }
                 IN Ok([ id |-> rv.id, consumer_rating_id |-> rv.consumer_rating_id,
                         user_id |-> rv.user_id, place_id |-> rv.place_id,
                         review |-> rv.review, is_private |-> rv.is_private,
                         is_active |-> rv.is_active,
                         moderation_notes |-> rv.moderation_notes,
                         rating_value |-> cr.rating_value, images |-> images ], t)

createReview(t, reviewData) ==
    LET row == [ id |-> t.serial.reviews + 1,
                 consumer_rating_id |-> parseInt(reviewData.consumerRatingId),
                 review |-> reviewData.review,
                 place_id |-> reviewData.placeId,
                 is_private |-> reviewData.isPrivate,
                 is_active |-> reviewData.isActive,
                 user_id |-> parseInt(reviewData.userId),
                 moderation_notes |-> "NULL" ]
    IN IF row.consumer_rating_id = NaN \/ row.user_id = NaN THEN Throw("22P02", t)
       ELSE IF ~ ForeignKeysHold(t, row) THEN Throw("23503", t)
       ELSE getReviewById([t EXCEPT !.reviews = @ \cup {row},
                                    !.serial.reviews = @ + 1], row.id)

updateReview(t, id, reviewData) ==
    IF parseInt(id) = NaN THEN Throw("22P02", t)
    ELSE getReviewById(
           [t EXCEPT !.reviews =
               { IF rv.id = parseInt(id)
                 THEN [rv EXCEPT !.review = reviewData.review,
                                 !.is_private = reviewData.isPrivate]
                 ELSE rv : rv \in @ }], id)

(* The statements of deleteReview's transaction callback, in order. *)
deleteReview_transaction(t, id) ==
    [t EXCEPT !.images = { i \in @ : i.consumer_review_id # parseInt(id) },
              !.reviews = { rv \in @ : rv.id # parseInt(id) }]

deleteReview(t, id) == db_transaction(t, deleteReview_transaction(t, id))

moderateReview(t, id, moderationData) ==
    IF parseInt(id) = NaN THEN Throw("22P02", t)
    ELSE getReviewById(
           [t EXCEPT !.reviews =
               { IF rv.id = parseInt(id)
                 THEN [rv EXCEPT !.is_active = moderationData.isActive,
                                 !.moderation_notes =
                                     IF moderationData.moderationNotes = "" THEN "NULL"
                                     ELSE moderationData.moderationNotes]
                 ELSE rv : rv \in @ }], id)

(* INSERT INTO consumer_glad_points ... RETURNING id *)
insertGladPoints(t, ratingId, userId) ==
    LET row == [ id |-> t.serial.points + 1,
                 consumer_rating_id |-> parseInt(ratingId),
                 points |-> GladPointsAward,
                 user_id |-> parseInt(userId),
                 is_redeemed |-> FALSE ]
    IN IF row.consumer_rating_id = NaN \/ row.user_id = NaN THEN Throw("22P02", t)
       ELSE IF ~ UniqueGladPoints(t, row) THEN Throw("23505", t)
       ELSE IF ~ ForeignKeysHold(t, row) THEN Throw("23503", t)
       ELSE Ok(row.id, [t EXCEPT !.points = @ \cup {row}, !.serial.points = @ + 1])

(* SELECT * FROM consumer_glad_points WHERE id = $1; gladPoints[0] *)
selectGladPoints(t, pointsId) ==
    LET gladPoints == { g \in t.points : g.id = pointsId } IN
    IF gladPoints = {} THEN Ok([id |-> undefined], t)
    ELSE Ok(CHOOSE g \in gladPoints : TRUE, t)

AlreadyAwarded == [message |-> "Points already awarded for this rating"]

(* The catch block of addGladPoints. *)
addGladPoints_catch_rethrow(error) == Throw(error.code, error.t)

addGladPoints_catch(error) ==
    IF error.code = "23505" THEN Ok(AlreadyAwarded, error.t)
    ELSE Throw(error.code, error.t)

addGladPoints(t, ratingId, userId) ==
    LET result == insertGladPoints(t, ratingId, userId) IN
    IF result.threw THEN addGladPoints_catch(result)
    ELSE selectGladPoints(result.t, result.value)

----------------------------------------------------------------------------
(* src/services/mediaService.js (image_urls) and adminService.js (ads) *)

getImageById(t, id) ==
    IF parseInt(id) = NaN THEN Throw("22P02", t)
    ELSE LET result == { i \in t.images : i.id = parseInt(id)
                                           /\ i.image_type_id \in ImageTypeIds }
         IN IF result = {} THEN Ok(null, t)
            ELSE Ok(CHOOSE i \in result : TRUE, t)

uploadImage(t, imageData) ==
    LET row == [ id |-> t.serial.images + 1,
                 image_type_id |-> parseInt(imageData.imageTypeId),
                 consumer_rating_id |-> IF imageData.consumerRatingId = NULL THEN NULL
                                        ELSE parseInt(imageData.consumerRatingId),
                 consumer_review_id |-> IF imageData.consumerReviewId = NULL THEN NULL
                                        ELSE parseInt(imageData.consumerReviewId),
                 edu_dorm_id |-> IF imageData.eduDormId = NULL THEN NULL
                                 ELSE parseInt(imageData.eduDormId),
                 user_id |-> parseInt(imageData.userId),
                 order_by_number |-> OrElse(imageData.orderByNumber, 0),
                 is_active |-> imageData.isActive,
                 moderation_notes |-> "NULL" ]
    IN IF row.image_type_id = NaN \/ row.user_id = NaN THEN Throw("22P02", t)
       ELSE IF ~ ForeignKeysHold(t, row) THEN Throw("23503", t)
       ELSE getImageById([t EXCEPT !.images = @ \cup {row},
                                   !.serial.images = @ + 1], row.id)

deleteImage(t, id) ==
    IF parseInt(id) = NaN THEN Throw("22P02", t)
    ELSE Ok(TRUE, [t EXCEPT !.images =
                      { IF i.id = parseInt(id) THEN [i EXCEPT !.is_active = FALSE]
                        ELSE i : i \in @ }])

moderateImage(t, id, moderationData) ==
    IF parseInt(id) = NaN THEN Throw("22P02", t)
    ELSE getImageById(
           [t EXCEPT !.images =
               { IF i.id = parseInt(id)
                 THEN [i EXCEPT !.is_active = moderationData.isActive,
                                !.moderation_notes =
                                    IF moderationData.moderationNotes = "" THEN "NULL"
                                    ELSE moderationData.moderationNotes]
                 ELSE i : i \in @ }], id)

createAd(t, adData) ==
    LET row == [ id |-> t.serial.ads + 1,
                 content |-> adData.content,
                 url |-> adData.url,
                 is_active |-> adData.isActive ]
        t1 == [t EXCEPT !.ads = @ \cup {row}, !.serial.ads = @ + 1]
        createdAd == { a \in t1.ads : a.id = row.id }
    IN IF createdAd = {} THEN Throw("", t1)
       ELSE Ok(CHOOSE a \in createdAd : TRUE, t1)

(* Every column of the SET clause is written, whatever adData holds: an     *)
(* absent url is written as the empty string (url || '').  adData is a     *)
(* record of its fields with `present`, the names of the fields given.      *)
updateAd(t, id, adData) ==
    IF parseInt(id) = NaN THEN Throw("22P02", t)
    ELSE LET t1 == [t EXCEPT !.ads =
                      { IF a.id = parseInt(id)
                        THEN [a EXCEPT !.content = adData.content,
                                       !.url = IF "url" \in adData.present
                                               THEN adData.url ELSE "",
                                       !.is_active = adData.isActive]
                        ELSE a : a \in @ }]
             updatedAd == { a \in t1.ads : a.id = parseInt(id) }
         IN IF updatedAd = {} THEN Throw("", t1)
            ELSE Ok(CHOOSE a \in updatedAd : TRUE, t1)

deleteAd(t, id) ==
    IF parseInt(id) = NaN THEN Throw("22P02", t)
    ELSE Ok(TRUE, [t EXCEPT !.ads = { a \in @ : a.id # parseInt(id) }])

----------------------------------------------------------------------------
(* The controllers: src/controllers/ratingController.js, mediaController.js, *)
(* adminController.js.  A controller answers with a status; `target` is the  *)
(* row it loaded for its ownership check (null when it loaded none).         *)

Reply(status, target, t) == [status |-> status, target |-> target, t |-> t]

includes(roles, role) == \E i \in 1..Len(roles) : roles[i] = role

(* rating.userId !== req.user.userId && !req.user.roles.includes('Admin') *)
notAuthorized_adminsOnly(resource, user) ==
    Prop(resource, "userId") # user.userId /\ includes(user.roles, "Admin")

notAuthorized(resource, user) ==
    Prop(resource, "userId") # user.userId /\ ~ includes(user.roles, "Admin")

ctl_createRating(user, body) ==
    LET rating == createRating(Cur, [ businessTypeId |-> body.businessTypeId,
                                      placeId |-> body.placeId,
                                      ratingValue |-> body.ratingValue,
                                      userId |-> user.userId ])
    IN IF rating.threw THEN Reply(400, null, rating.t)
       ELSE LET points == addGladPoints(rating.t, rating.value.id, user.userId) IN
            IF points.threw THEN Reply(400, null, points.t)
            ELSE Reply(201, rating.value, points.t)

ctl_updateRating(user, id, body) ==
    LET rating == getRatingById(Cur, id) IN
    IF rating.threw THEN Reply(400, null, rating.t)
    ELSE IF rating.value = null THEN Reply(404, null, Cur)
    ELSE IF notAuthorized(rating.value, user) THEN Reply(403, rating.value, Cur)
    ELSE LET updatedRating == updateRating(Cur, id, [ratingValue |-> body.ratingValue]) IN
         IF updatedRating.threw THEN Reply(400, rating.value, updatedRating.t)
         ELSE Reply(200, rating.value, updatedRating.t)

ctl_deleteRating(user, id) ==
    LET rating == getRatingById(Cur, id) IN
    IF rating.threw THEN Reply(500, null, rating.t)
    ELSE IF rating.value = null THEN Reply(404, null, Cur)
    ELSE IF notAuthorized(rating.value, user) THEN Reply(403, rating.value, Cur)
    ELSE LET deleted == deleteRating(Cur, id) IN
         IF deleted.threw THEN Reply(500, rating.value, deleted.t)
         ELSE Reply(200, rating.value, deleted.t)

(* createReview without the comparison of the rating's owner with the actor. *)
ctl_createReview_anyActor(user, body) ==
    LET rating == getRatingById(Cur, body.consumerRatingId) IN
    IF rating.threw THEN Reply(400, null, rating.t)
    ELSE IF rating.value = null THEN Reply(404, null, Cur)
    ELSE LET newReview == createReview(Cur, [ consumerRatingId |-> body.consumerRatingId,
                                              review |-> body.review,
                                              placeId |-> body.placeId,
                                              isPrivate |-> body.isPrivate,
                                              isActive |-> TRUE,
                                              userId |-> user.userId ])
         IN IF newReview.threw THEN Reply(400, rating.value, newReview.t)
            ELSE Reply(201, rating.value, newReview.t)

ctl_createReview(user, body) ==
    LET rating == getRatingById(Cur, body.consumerRatingId) IN
    IF rating.threw THEN Reply(400, null, rating.t)
    ELSE IF rating.value = null THEN Reply(404, null, Cur)
    ELSE IF Prop(rating.value, "userId") # user.userId THEN Reply(403, rating.value, Cur)
    ELSE LET newReview == createReview(Cur, [ consumerRatingId |-> body.consumerRatingId,
                                              review |-> body.review,
                                              placeId |-> body.placeId,
                                              isPrivate |-> body.isPrivate,
                                              isActive |-> TRUE,
                                              userId |-> user.userId ])
         IN IF newReview.threw THEN Reply(400, rating.value, newReview.t)
            ELSE Reply(201, rating.value, newReview.t)

ctl_updateReview(user, id, body) ==
    LET existingReview == getReviewById(Cur, id) IN
    IF existingReview.threw THEN Reply(400, null, existingReview.t)
    ELSE IF existingReview.value = null THEN Reply(404, null, Cur)
    ELSE IF notAuthorized(existingReview.value, user)
         THEN Reply(403, existingReview.value, Cur)
    ELSE LET updatedReview == updateReview(Cur, id, [ review |-> body.review,
                                                      isPrivate |-> body.isPrivate ])
         IN IF updatedReview.threw THEN Reply(400, existingReview.value, updatedReview.t)
            ELSE Reply(200, existingReview.value, updatedReview.t)

ctl_deleteReview(user, id) ==
    LET review == getReviewById(Cur, id) IN
    IF review.threw THEN Reply(500, null, review.t)
    ELSE IF review.value = null THEN Reply(404, null, Cur)
    ELSE IF notAuthorized(review.value, user) THEN Reply(403, review.value, Cur)
    ELSE LET deleted == deleteReview(Cur, id) IN
         IF deleted.threw THEN Reply(500, review.value, deleted.t)
         ELSE Reply(200, review.value, deleted.t)

ctl_moderateReview(user, id, body) ==
    LET updatedReview == moderateReview(Cur, id, [ isActive |-> body.isActive,
                                                   moderationNotes |-> body.moderationNotes ])
    IN IF updatedReview.threw THEN Reply(400, null, updatedReview.t)
       ELSE Reply(200, updatedReview.value, updatedReview.t)

ctl_uploadImage(user, file, body) ==
    IF ~ file THEN Reply(400, null, Cur)
    ELSE LET image == uploadImage(Cur, [ imageTypeId |-> body.imageTypeId,
                                         consumerRatingId |-> OrElse(body.consumerRatingId, NULL),
                                         consumerReviewId |-> OrElse(body.consumerReviewId, NULL),
                                         eduDormId |-> OrElse(body.eduDormId, NULL),
                                         userId |-> user.userId,
                                         orderByNumber |-> OrElse(body.orderByNumber, 0),
                                         isActive |-> TRUE ])
         IN IF image.threw THEN Reply(400, null, image.t)
            ELSE Reply(201, image.value, image.t)

ctl_deleteImage(user, id) ==
    LET image == getImageById(Cur, id) IN
    IF image.threw THEN Reply(500, null, image.t)
    ELSE IF image.value = null THEN Reply(404, null, Cur)
    ELSE LET isOwner == Prop(image.value, "userId") = user.userId
             isAdmin == includes(user.roles, "Admin")
         IN IF ~ isOwner /\ ~ isAdmin THEN Reply(403, image.value, Cur)
            ELSE LET deleted == deleteImage(Cur, id) IN
                 IF deleted.threw THEN Reply(500, image.value, deleted.t)
                 ELSE Reply(200, image.value, deleted.t)

ctl_moderateImage(user, id, body) ==
    LET updatedImage == moderateImage(Cur, id, [ isActive |-> body.isActive,
                                                 moderationNotes |-> body.moderationNotes ])
    IN IF updatedImage.threw THEN Reply(400, null, updatedImage.t)
       ELSE Reply(200, updatedImage.value, updatedImage.t)

ctl_createAd(user, body) ==
    LET newAd == createAd(Cur, [content |-> body.content, url |-> body.url,
                                isActive |-> TRUE]) IN
    IF newAd.threw THEN Reply(400, null, newAd.t)
    ELSE Reply(201, null, newAd.t)

ctl_updateAd(user, id, body) ==
    LET updatedAd == updateAd(Cur, id, body) IN
    IF updatedAd.threw THEN Reply(400, null, updatedAd.t)
    ELSE Reply(200, null, updatedAd.t)

ctl_deleteAd(user, id) ==
    LET deleted == deleteAd(Cur, id) IN
    IF deleted.threw THEN Reply(500, null, deleted.t)
    ELSE Reply(200, null, deleted.t)

----------------------------------------------------------------------------
(* The routes: which middleware stands before which handler.                *)
(* routes/index.js puts verifyToken before the rating, media and admin      *)
(* routers; src/index.js mounts the admin router with no verifyToken.       *)

AdminOnly == {"Admin"}                       \* adminRoutes.js: router.use(checkRole(['Admin']))
AdminOrModerator == {"Admin", "Moderator"}   \* .../moderate routes
NoGate == {}                                 \* a route with no checkRole

(* The inputs requests are drawn from. *)
InputValues == {MinRating, MaxRating + 1}
Places == {"P1"}
RatingIds == 1..MaxRatings
ReviewIds == 1..MaxReviews
ImageIds == 1..MaxImages
AdIds == 1..MaxAds
ReviewTexts == {"t2"}
Notes == {"", "n1"}

(***************************************************************************)
(* Errors: a failed statement's error on its way from the driver through   *)
(* the service's catch and the controller's catch to errorHandler.         *)
(***************************************************************************)

(* The SQLSTATE codes a failed statement carries; XX000 is one errorHandler *)
(* does not know.                                                           *)
DbCodes == {"08003", "08006", "57P01", "42P01", "23505", "23503", "XX000"}

(* The error the driver raises: an Error with .code, without .status and   *)
(* without .isOperational.                                                 *)
dbError(code) ==
    [code |-> code, status |-> undefined, isOperational |-> FALSE, originalError |-> ""]

(* createError: a new Error with .status and .isOperational; the original  *)
(* error is kept under .originalError (here: its code) and its code is not *)
(* copied to the new error.                                                *)
createError(statusCode, originalError) ==
    [code |-> "", status |-> statusCode, isOperational |-> TRUE,
     originalError |-> IF originalError.code # "" THEN originalError.code
                       ELSE originalError.originalError]

(* errorHandler: the status of the response. *)
errorHandler(err) ==
    LET s0 == IF err.status # undefined THEN err.status ELSE 500
        s1 == IF err.code \in {"08003", "08006", "57P01"} THEN 503 ELSE s0
        s2 == IF err.code = "42P01" THEN 500 ELSE s1
        s3 == IF err.code = "23505" THEN 409 ELSE s2
        s4 == IF err.code = "23503" THEN 400 ELSE s3
    IN IF err.isOperational THEN err.status ELSE s4

(* The controller whose request runs each service call, and the status its *)
(* catch block passes to createError.                                      *)
Statements == {"createRating", "addGladPoints", "updateRating", "deleteRating",
               "createReview", "deleteReview", "createAd", "updateAd", "deleteAd",
               "uploadImage", "deleteImage"}
Controller(statement) == IF statement = "addGladPoints" THEN "createRating" ELSE statement
CatchStatus(controller) ==
    IF controller \in {"deleteRating", "deleteReview", "deleteAd", "deleteImage"}
    THEN 500 ELSE 400

NoFailure == [stage |-> "none", statement |-> "", code |-> "", err |-> dbError(""),
              status |-> NEXT, token |-> [kind |-> "none", uid |-> ""], user |-> null]

(* by: the link of the chain that answered. *)
NoListing == [op |-> "none"]

NoExchange == [op |-> "none", allowed |-> NoGate, actor |-> NULL, id |-> NULL,
               by |-> "none", status |-> NEXT, owner |-> NULL, body |-> null]

Commit(t) ==
    /\ consumer_ratings' = t.ratings
    /\ consumer_reviews' = t.reviews
    /\ image_urls' = t.images
    /\ consumer_glad_points' = t.points
    /\ consumer_survey_question_answers' = t.answers
    /\ ads' = t.ads
    /\ serial' = t.serial
    /\ UNCHANGED <<users, secondary_user_roles, messages, user_activity_logs,
                   deleted_users, businesses, calls, listed, deletions, failure>>

(* One HTTP exchange: the middleware chain of the route, then its handler. *)
Exchange(op, token, viaVerify, allowedRoles, id, handler(_)) ==
    LET auth == IF viaVerify THEN verifyToken(token)
                ELSE [status |-> NEXT, user |-> null]
        gate == IF allowedRoles # NoGate THEN checkRole(allowedRoles, auth.user)
                ELSE NEXT
        actor == IF auth.user = null THEN NULL ELSE auth.user.userId
        req == [NoExchange EXCEPT !.op = op, !.allowed = allowedRoles,
                                  !.actor = actor, !.id = id]
    IN IF auth.status # NEXT
       THEN /\ resp' = [req EXCEPT !.by = "verifyToken", !.status = auth.status]
            /\ Commit(Cur)
       ELSE IF gate # NEXT
       THEN /\ resp' = [req EXCEPT !.by = "checkRole", !.status = gate]
            /\ Commit(Cur)
       ELSE LET out == handler(auth.user) IN
            /\ resp' = [req EXCEPT !.by = "handler", !.status = out.status,
                                   !.owner = IF out.target = null THEN NULL
                                             ELSE out.target.user_id]
            /\ Commit(out.t)

CreateRating ==
    \E token \in Tokens, placeId \in Places, ratingValue \in InputValues :
        /\ serial.ratings < MaxRatings
        /\ Exchange("createRating", token, TRUE, NoGate, NULL,
              LAMBDA user : ctl_createRating(user,
                  [ businessTypeId |-> undefined, placeId |-> placeId,
                    ratingValue |-> ratingValue ]))

UpdateRating ==
    \E token \in Tokens, id \in RatingIds, ratingValue \in InputValues :
        Exchange("updateRating", token, TRUE, NoGate, id,
            LAMBDA user : ctl_updateRating(user, id, [ratingValue |-> ratingValue]))

DeleteRating ==
    \E token \in Tokens, id \in RatingIds \cup {abc} :
        Exchange("deleteRating", token, TRUE, NoGate, id,
            LAMBDA user : ctl_deleteRating(user, id))

CreateReview ==
    \E token \in Tokens, consumerRatingId \in RatingIds, review \in ReviewTexts,
       placeId \in Places, isPrivate \in BOOLEAN :
        /\ serial.reviews < MaxReviews
        /\ Exchange("createReview", token, TRUE, NoGate, NULL,
              LAMBDA user : ctl_createReview(user,
                  [ consumerRatingId |-> consumerRatingId, review |-> review,
                    placeId |-> placeId, isPrivate |-> isPrivate ]))

UpdateReview ==
    \E token \in Tokens, id \in ReviewIds, review \in ReviewTexts, isPrivate \in BOOLEAN :
        Exchange("updateReview", token, TRUE, NoGate, id,
            LAMBDA user : ctl_updateReview(user, id,
                [review |-> review, isPrivate |-> isPrivate]))

DeleteReview ==
    \E token \in Tokens, id \in ReviewIds :
        Exchange("deleteReview", token, TRUE, NoGate, id,
            LAMBDA user : ctl_deleteReview(user, id))

ModerateReview ==
    \E token \in Tokens, id \in ReviewIds, isActive \in BOOLEAN, moderationNotes \in Notes :
        Exchange("moderateReview", token, TRUE, AdminOrModerator, id,
            LAMBDA user : ctl_moderateReview(user, id,
                [isActive |-> isActive, moderationNotes |-> moderationNotes]))

UploadImage ==
    \E token \in Tokens, file \in BOOLEAN,
       consumerRatingId \in {undefined, 1}, consumerReviewId \in {undefined, 1},
       eduDormId \in {undefined} \cup DormIds :
        /\ serial.images < MaxImages
        /\ Exchange("uploadImage", token, TRUE, NoGate, NULL,
              LAMBDA user : ctl_uploadImage(user, file,
                  [ imageTypeId |-> 1, consumerRatingId |-> consumerRatingId,
                    consumerReviewId |-> consumerReviewId, eduDormId |-> eduDormId,
                    orderByNumber |-> undefined ]))

DeleteImage ==
    \E token \in Tokens, id \in ImageIds :
        Exchange("deleteImage", token, TRUE, NoGate, id,
            LAMBDA user : ctl_deleteImage(user, id))

ModerateImage ==
    \E token \in Tokens, id \in ImageIds, isActive \in BOOLEAN, moderationNotes \in Notes :
        Exchange("moderateImage", token, TRUE, AdminOrModerator, id,
            LAMBDA user : ctl_moderateImage(user, id,
                [isActive |-> isActive, moderationNotes |-> moderationNotes]))

CreateAd ==
    \E token \in Tokens, viaVerify \in BOOLEAN, url \in {"", "u1"} :
        /\ serial.ads < MaxAds
        /\ Exchange("createAd", token, viaVerify, AdminOnly, NULL,
              LAMBDA user : ctl_createAd(user, [content |-> "c", url |-> url]))

(* PUT /ads/:id with a body that names content and isActive, and url or not. *)
UpdateAd ==
    \E token \in Tokens, viaVerify \in BOOLEAN, id \in AdIds,
       present \in { {"content", "isActive"}, {"content", "isActive", "url"} } :
        Exchange("updateAd", token, viaVerify, AdminOnly, id,
            LAMBDA user : ctl_updateAd(user, id,
                [present |-> present, content |-> "c2", url |-> "u2",
                 isActive |-> TRUE]))

DeleteAd ==
    \E token \in Tokens, viaVerify \in BOOLEAN, id \in AdIds :
        Exchange("deleteAd", token, viaVerify, AdminOnly, id,
            LAMBDA user : ctl_deleteAd(user, id))

----------------------------------------------------------------------------
(* The database a deployment starts from: empty, or holding the rows of an  *)
(* earlier run (a rating of user 1 with its points, a review of it with an  *)
(* image, and a survey answer).                                             *)

EmptyDb ==
    [ ratings |-> {}, reviews |-> {}, images |-> {}, points |-> {}, answers |-> {},
      ads |-> {}, messages |-> {}, logs |-> {},
      serial |-> [ratings |-> 0, reviews |-> 0, images |-> 0, points |-> 0,
                  answers |-> 0, ads |-> 0] ]

SeededDb ==
    [ ratings |-> { [id |-> 1, business_type_id |-> NULL, place_id |-> "P1",
                     rating_value |-> 5, user_id |-> 1] },
      reviews |-> { [id |-> 1, consumer_rating_id |-> 1, review |-> "t1",
                     place_id |-> "P1", is_private |-> FALSE, is_active |-> TRUE,
                     user_id |-> 1, moderation_notes |-> "NULL"] },
      images |-> { [id |-> 1, image_type_id |-> 1, consumer_rating_id |-> NULL,
                    consumer_review_id |-> 1, edu_dorm_id |-> NULL, user_id |-> 1,
                    order_by_number |-> 0, is_active |-> TRUE,
                    moderation_notes |-> "NULL"] },
      points |-> { [id |-> 1, consumer_rating_id |-> 1, points |-> 10, user_id |-> 1,
                    is_redeemed |-> FALSE] },
      answers |-> { [id |-> 1, consumer_rating_id |-> 1, user_id |-> 1] },
      ads |-> {}, messages |-> {}, logs |-> {},
      serial |-> [ratings |-> 1, reviews |-> 1, images |-> 1, points |-> 1,
                  answers |-> 1, ads |-> 0] ]

(* The businesses the database holds: business 1 of user 1, active, and    *)
(* business 2 of user 2, inactive.                                          *)
InitBusinesses ==
    { [id |-> 1, user_id |-> 1, business_name |-> "n1", is_active |-> TRUE],
      [id |-> 2, user_id |-> 2, business_name |-> "n1", is_active |-> FALSE] }

InitDb(t) ==
    /\ users = InitUsers
    /\ secondary_user_roles = InitSecondaryRoles
    /\ consumer_ratings = t.ratings
    /\ consumer_reviews = t.reviews
    /\ image_urls = t.images
    /\ consumer_glad_points = t.points
    /\ consumer_survey_question_answers = t.answers
    /\ ads = t.ads
    /\ messages = t.messages
    /\ user_activity_logs = t.logs
    /\ deleted_users = { [user_id |-> u.id] : u \in { x \in InitUsers : x.is_deleted } }
    /\ businesses = InitBusinesses
    /\ serial = t.serial


Init ==
    /\ \E t \in {EmptyDb, SeededDb} : InitDb(t)
    /\ resp = NoExchange
    /\ calls = <<>>
    /\ listed = NoListing
    /\ deletions = {}
    /\ failure = NoFailure

(* The rating, review and image handlers that check ownership. *)
Next ==
    \/ CreateRating
    \/ UpdateRating
    \/ DeleteRating
    \/ CreateReview
    \/ UpdateReview
    \/ DeleteReview
    \/ DeleteImage

Spec == Init /\ [][Next]_vars

(* The routes behind checkRole. *)
GateNext ==
    \/ ModerateReview
    \/ ModerateImage
    \/ CreateAd
    \/ UpdateAd
    \/ DeleteAd

GateSpec == Init /\ [][GateNext]_vars

(* The image handlers. *)
MediaNext ==
    \/ UploadImage
    \/ DeleteImage
    \/ ModerateImage

(* The seeded database before its image was uploaded: rating 1 and review *)
(* 1 exist, image_urls is empty.                                          *)
ReviewedDb == [SeededDb EXCEPT !.images = {}, !.serial.images = 0]

MediaInit ==
    /\ \E t \in {EmptyDb, SeededDb, ReviewedDb} : InitDb(t)
    /\ resp = NoExchange
    /\ calls = <<>>
    /\ listed = NoListing
    /\ deletions = {}
    /\ failure = NoFailure

MediaSpec == MediaInit /\ [][MediaNext]_vars

----------------------------------------------------------------------------
(* Concurrent addGladPoints calls.  A call runs up to its next await: the    *)
(* INSERT, then the SELECT of the created row; the event loop runs the calls *)
(* in any order between their awaits.                                        *)

MaxCalls == 2        \* addGladPoints calls a behaviour may start

PointsRatingIds == {2, 3}
PointsUserIds == {1, 2}

NoResult == [threw |-> FALSE, code |-> "", value |-> null]
Outcome(r) == [threw |-> r.threw, code |-> r.code, value |-> r.value]

(* fresh: no row of the pair existed when the call began; after: the calls   *)
(* that had returned when it began.                                          *)
CallAddGladPoints ==
    \E ratingId \in PointsRatingIds, userId \in PointsUserIds :
        /\ Len(calls) < MaxCalls
        /\ calls' = Append(calls,
              [ ratingId |-> ratingId, userId |-> userId, pc |-> "insert",
                pointsId |-> undefined, out |-> NoResult,
                fresh |-> ~ \E g \in consumer_glad_points :
                               g.consumer_rating_id = ratingId /\ g.user_id = userId,
                after |-> { k \in 1..Len(calls) : calls[k].pc = "done" } ])
        /\ UNCHANGED <<tables, serial, resp, listed, deletions, failure>>

(* await db.query(INSERT ...): the row's id, or the catch block. *)
InsertPoints(i) ==
    /\ i \in 1..Len(calls)
    /\ calls[i].pc = "insert"
    /\ LET result == insertGladPoints(Cur, calls[i].ratingId, calls[i].userId)
           caught == addGladPoints_catch(result)
       IN IF result.threw
          THEN /\ calls' = [calls EXCEPT ![i].pc = "done", ![i].out = Outcome(caught)]
               /\ UNCHANGED <<tables, serial>>
          ELSE /\ calls' = [calls EXCEPT ![i].pc = "select", ![i].pointsId = result.value]
               /\ consumer_glad_points' = result.t.points
               /\ serial' = result.t.serial
               /\ UNCHANGED <<users, secondary_user_roles, consumer_ratings,
                              consumer_reviews, image_urls,
                              consumer_survey_question_answers, ads,
                              messages, user_activity_logs, deleted_users, businesses>>
    /\ UNCHANGED <<resp, listed, deletions, failure>>

(* await db.query(SELECT ...); return gladPoints[0] *)
SelectPoints(i) ==
    /\ i \in 1..Len(calls)
    /\ calls[i].pc = "select"
    /\ calls' = [calls EXCEPT ![i].pc = "done",
                              ![i].out = Outcome(selectGladPoints(Cur, calls[i].pointsId))]
    /\ UNCHANGED <<tables, serial, resp, listed, deletions, failure>>

(* Two ratings, the second with no points row yet. *)
PointsDb ==
    [SeededDb EXCEPT !.ratings = @ \cup { [id |-> 2, business_type_id |-> NULL,
                                           place_id |-> "P1", rating_value |-> 1,
                                           user_id |-> 2] },
                     !.serial.ratings = 2]

PointsInit ==
    /\ InitDb(PointsDb)
    /\ resp = NoExchange
    /\ calls = <<>>
    /\ listed = NoListing
    /\ deletions = {}
    /\ failure = NoFailure

PointsNext ==
    \/ CallAddGladPoints
    \/ \E i \in 1..MaxCalls : InsertPoints(i)
    \/ \E i \in 1..MaxCalls : SelectPoints(i)

(* A query the pool answered resumes the call that awaits it. *)
PointsSpec ==
    /\ PointsInit
    /\ [][PointsNext]_vars
    /\ \A i \in 1..MaxCalls : WF_vars(InsertPoints(i)) /\ WF_vars(SelectPoints(i))

----------------------------------------------------------------------------
(* The paged list queries and the aggregation of a place's ratings.         *)
(* A query-string parameter that is absent is `undefined` where the code    *)
(* reads a number and the empty string where it reads text: the tests the   *)
(* code applies to text (truthiness, === 'true') treat the two alike.       *)

Truthy(x) == x \notin {undefined, NULL, NaN, 0}      \* if (x), x a number
TruthyText(s) == s # ""                              \* if (s), s a string

(* const { page = 1 } = req.query; parseInt(page) *)
queryInt(x, default) == parseInt(IF x = undefined THEN default ELSE x)

(* Rows in the order of ORDER BY date_created DESC (ORDER BY id DESC for    *)
(* users): rows are created in the order of their ids.                      *)
RECURSIVE OrderDesc(_)
OrderDesc(S) ==
    IF S = {} THEN <<>>
    ELSE LET x == CHOOSE y \in S : \A z \in S : z.id <= y.id
         IN <<x>> \o OrderDesc(S \ {x})

(* LIMIT limit OFFSET offset *)
LimitOffset(rows, limit, offset) ==
    LET last == IF offset + limit < Len(rows) THEN offset + limit ELSE Len(rows)
    IN IF offset >= Len(rows) THEN <<>> ELSE SubSeq(rows, offset + 1, last)

(* Math.ceil(totalCount / limit), totalCount >= 0 and limit >= 1 *)
Math_ceil(totalCount, limit) == (totalCount + limit - 1) \div limit

Math_floor(totalCount, limit) == totalCount \div limit

pagination_floor(totalCount, page, limit) ==
    LET totalPages == Math_floor(totalCount, limit) IN
    [ total |-> totalCount, page |-> page, limit |-> limit,
      totalPages |-> totalPages,
      hasNextPage |-> page < totalPages,
      hasPrevPage |-> page > 1 ]

(* The pagination object every list service returns. *)
pagination(totalCount, page, limit) ==
    LET totalPages == Math_ceil(totalCount, limit) IN
    [ total |-> totalCount, page |-> page, limit |-> limit,
      totalPages |-> totalPages,
      hasNextPage |-> page < totalPages,
      hasPrevPage |-> page > 1 ]

(* What a list service returns; offset is the OFFSET its data query used. *)
Page(rows, totalCount, page, limit, offset) ==
    [ data |-> LimitOffset(rows, limit, offset),
      pagination |-> pagination(totalCount, page, limit),
      offset |-> offset ]

JoinsUser(row) == \E u \in users : u.id = row.user_id
JoinsRating(row) == \E cr \in consumer_ratings : cr.id = row.consumer_rating_id

(* src/services/ratingService.js *)

(* a / b as JavaScript divides two integers, kept exact: a fraction in      *)
(* lowest terms.                                                            *)
RECURSIVE gcd(_, _)
gcd(a, b) == IF b = 0 THEN a ELSE gcd(b, a % b)
Divide(a, b) == LET g == gcd(a, b) IN [num |-> a \div g, den |-> b \div g]

RECURSIVE reduceSum(_)
reduceSum(ratings) ==
    IF ratings = <<>> THEN 0
    ELSE Head(ratings).rating_value + reduceSum(Tail(ratings))

ratingCounts_upTo4(ratings) ==
    [ v \in MinRating..MaxRating |->
        Cardinality({ i \in 1..Len(ratings) :
            /\ ratings[i].rating_value >= MinRating
            /\ ratings[i].rating_value < MaxRating
            /\ ratings[i].rating_value = v }) ]

(* ratings.forEach(rating => { if (1 <= value <= 5) ratingCounts[value]++ }) *)
ratingCounts(ratings) ==
    [ v \in MinRating..MaxRating |->
        Cardinality({ i \in 1..Len(ratings) :
            /\ ratings[i].rating_value >= MinRating
            /\ ratings[i].rating_value <= MaxRating
            /\ ratings[i].rating_value = v }) ]

getRatingsByPlace(placeId) ==
    LET ratings == OrderDesc({ r \in consumer_ratings : r.place_id = placeId }) IN
    IF Len(ratings) = 0
    THEN [ placeId |-> placeId, averageRating |-> [num |-> 0, den |-> 1],
           totalRatings |-> 0,
           ratingCounts |-> [v \in MinRating..MaxRating |-> 0],
           ratings |-> <<>> ]
    ELSE LET sum == reduceSum(ratings) IN
         [ placeId |-> placeId, averageRating |-> Divide(sum, Len(ratings)),
           totalRatings |-> Len(ratings),
           ratingCounts |-> ratingCounts(ratings),
           ratings |-> ratings ]

getReviewsByPlace_count_anyPrivacy(placeId) ==
    Cardinality({ r \in consumer_reviews : r.place_id = placeId /\ r.is_active })

(* The COUNT query of getReviewsByPlace. *)
getReviewsByPlace_count(placeId) ==
    Cardinality({ r \in consumer_reviews :
        r.place_id = placeId /\ r.is_active = TRUE /\ r.is_private = FALSE })

(* The images the service attaches to each review are left out. *)
getReviewsByPlace(placeId, page, limit) ==
    LET offset == (page - 1) * limit
        reviews == OrderDesc({ r \in consumer_reviews :
                       /\ JoinsUser(r) /\ JoinsRating(r)
                       /\ r.place_id = placeId /\ r.is_active = TRUE
                       /\ r.is_private = FALSE })
    IN Page(reviews, getReviewsByPlace_count(placeId), page, limit, offset)

(* conditions.join(' AND ') of getAllRatings, as a test of one row *)
getAllRatings_where(options, r) ==
    /\ TruthyText(options.placeId) => r.place_id = options.placeId
    /\ Truthy(options.userId) => r.user_id = parseInt(options.userId)
    /\ Truthy(options.businessTypeId) =>
           r.business_type_id = parseInt(options.businessTypeId)

getAllRatings(options) ==
    LET page == options.page
        limit == options.limit
        offset == (page - 1) * limit
        ratings == OrderDesc({ r \in consumer_ratings :
                       JoinsUser(r) /\ getAllRatings_where(options, r) })
        totalCount == Cardinality({ r \in consumer_ratings :
                          getAllRatings_where(options, r) })
    IN Page(ratings, totalCount, page, limit, offset)

getAllReviews_where(options, r) ==
    /\ TruthyText(options.placeId) => r.place_id = options.placeId
    /\ Truthy(options.userId) => r.user_id = parseInt(options.userId)

getAllReviews(options) ==
    LET page == options.page
        limit == options.limit
        offset == (page - 1) * limit
        reviews == OrderDesc({ r \in consumer_reviews :
                       /\ JoinsUser(r) /\ JoinsRating(r)
                       /\ getAllReviews_where(options, r) })
        totalCount == Cardinality({ r \in consumer_reviews :
                          getAllReviews_where(options, r) })
    IN Page(reviews, totalCount, page, limit, offset)

(* src/services/adminService.js: userService, mediaService, adminService *)

Lower(c) == IF c = "A" THEN "a" ELSE c

(* value ILIKE '%' || search || '%' on texts held as sequences of characters *)
ILike(value, search) ==
    \E i \in 1..(Len(value) - Len(search) + 1) :
        \A k \in 1..Len(search) : Lower(value[i + k - 1]) = Lower(search[k])

getAllUsers_where(options, u) ==
    /\ u.is_deleted = FALSE
    /\ options.search # <<>> =>
           \/ ILike(u.first_name, options.search)
           \/ ILike(u.last_name, options.search)
           \/ ILike(u.email, options.search)
    /\ TruthyText(options.role) => u.role = options.role

getAllUsers(options) ==
    LET page == options.page
        limit == options.limit
        offset == (page - 1) * limit
        rows == OrderDesc({ u \in users : getAllUsers_where(options, u) })
        totalCount == Cardinality({ u \in users : getAllUsers_where(options, u) })
    IN Page(rows, totalCount, page, limit, offset)

getAllImages_where(options, i) ==
    /\ i.is_active = TRUE
    /\ Truthy(options.imageTypeId) => i.image_type_id = parseInt(options.imageTypeId)

getAllImages(options) ==
    LET page == options.page
        limit == options.limit
        offset == (page - 1) * limit
        images == OrderDesc({ i \in image_urls :
                      i.image_type_id \in ImageTypeIds /\ getAllImages_where(options, i) })
        totalCount == Cardinality({ i \in image_urls : getAllImages_where(options, i) })
    IN Page(images, totalCount, page, limit, offset)

(* isRead, isReplied and requiresReply reach the service as booleans. *)
getAllMessages_where(options, m) ==
    /\ m.is_read = options.isRead
    /\ m.is_replied = options.isReplied
    /\ m.requires_reply = options.requiresReply
    /\ TruthyText(options.category) => m.category = options.category

getAllMessages(options) ==
    LET page == options.page
        limit == options.limit
        offset == (page - 1) * limit
        rows == OrderDesc({ m \in messages : getAllMessages_where(options, m) })
        totalCount == Cardinality({ m \in messages : getAllMessages_where(options, m) })
    IN Page(rows, totalCount, page, limit, offset)

getAllAds_where(options, a) == a.is_active = options.isActive

getAllAds(options) ==
    LET page == options.page
        limit == options.limit
        offset == (page - 1) * limit
        rows == OrderDesc({ a \in ads : getAllAds_where(options, a) })
        totalCount == Cardinality({ a \in ads : getAllAds_where(options, a) })
    IN Page(rows, totalCount, page, limit, offset)

getUserActivityLogs_where(options, l) ==
    /\ TruthyText(options.eventType) => l.event_type = options.eventType
    /\ TruthyText(options.eventCategory) => l.event_category = options.eventCategory
    /\ Truthy(options.startDate) => l.occurred_at >= options.startDate
    /\ Truthy(options.endDate) => l.occurred_at <= options.endDate

getUserActivityLogs(options) ==
    LET page == options.page
        limit == options.limit
        offset == (page - 1) * limit
        logs == OrderDesc({ l \in user_activity_logs :
                    JoinsUser(l) /\ getUserActivityLogs_where(options, l) })
        totalCount == Cardinality({ l \in user_activity_logs :
                          getUserActivityLogs_where(options, l) })
    IN Page(logs, totalCount, page, limit, offset)

getUserActivityLogsByUser(userId, options) ==
    LET page == options.page
        limit == options.limit
        offset == (page - 1) * limit
        logs == OrderDesc({ l \in user_activity_logs :
                    /\ JoinsUser(l) /\ l.user_id = parseInt(userId)
                    /\ getUserActivityLogs_where(options, l) })
        totalCount == Cardinality({ l \in user_activity_logs :
                          /\ l.user_id = parseInt(userId)
                          /\ getUserActivityLogs_where(options, l) })
    IN Page(logs, totalCount, page, limit, offset)

(* The list controllers: the service call each makes from req.query and     *)
(* req.params, here the one record q.                                       *)

ctl_getRatingsByPlace(q) == getRatingsByPlace(q.placeId)

ctl_getReviewsByPlace(q) ==
    getReviewsByPlace(q.placeId, queryInt(q.page, DefaultPage),
                      queryInt(q.limit, DefaultLimit))

ctl_getAllRatings(q) ==
    getAllRatings([ page |-> queryInt(q.page, DefaultPage),
                    limit |-> queryInt(q.limit, DefaultLimit),
                    placeId |-> q.placeId, userId |-> q.userId,
                    businessTypeId |-> q.businessTypeId ])

ctl_getAllReviews(q) ==
    getAllReviews([ page |-> queryInt(q.page, DefaultPage),
                    limit |-> queryInt(q.limit, DefaultLimit),
                    placeId |-> q.placeId, userId |-> q.userId ])

ctl_getAllUsers(q) ==
    getAllUsers([ page |-> queryInt(q.page, DefaultPage),
                  limit |-> queryInt(q.limit, DefaultLimit),
                  search |-> q.search, role |-> q.role ])

ctl_getAllImages(q) ==
    getAllImages([ page |-> queryInt(q.page, DefaultPage),
                   limit |-> queryInt(q.limit, DefaultLimit),
                   imageTypeId |-> q.imageTypeId ])

ctl_getAllMessages(q) ==
    getAllMessages([ page |-> queryInt(q.page, DefaultPage),
                     limit |-> queryInt(q.limit, DefaultLimit),
                     isRead |-> (q.isRead = "true"),
                     isReplied |-> (q.isReplied = "true"),
                     requiresReply |-> (q.requiresReply = "true"),
                     category |-> q.category ])

ctl_getAllAds(q) ==
    getAllAds([ page |-> queryInt(q.page, DefaultPage),
                limit |-> queryInt(q.limit, DefaultLimit),
                isActive |-> (q.isActive = "true") ])

ctl_getUserActivityLogs(q) ==
    getUserActivityLogs([ page |-> queryInt(q.page, DefaultPage),
                          limit |-> queryInt(q.limit, DefaultLimit),
                          eventType |-> q.eventType, eventCategory |-> q.eventCategory,
                          startDate |-> q.startDate, endDate |-> q.endDate ])

ctl_getUserActivityLogsByUser(q) ==
    getUserActivityLogsByUser(q.userId,
        [ page |-> queryInt(q.page, DefaultPage),
          limit |-> queryInt(q.limit, DefaultLimit),
          eventType |-> q.eventType, eventCategory |-> q.eventCategory,
          startDate |-> q.startDate, endDate |-> q.endDate ])

(* The requests the list routes are given. *)
MaxListRows == 3     \* rows a listed table may hold

Pages == {undefined, 2}
Limits == {undefined, 1, 2}
Paging == [page : Pages, limit : Limits]
ListPlaces == {"P1", "P2"}
ListValues == {MinRating - 1, MaxRating}

With(paging, filters) ==
    [ k \in DOMAIN paging \cup DOMAIN filters |->
        IF k \in DOMAIN paging THEN paging[k] ELSE filters[k] ]

Answer(op, q, result) ==
    /\ listed' = [op |-> op, query |-> q, result |-> result]
    /\ UNCHANGED <<tables, serial, resp, calls, deletions, failure>>

GetRatingsByPlace ==
    \E placeId \in ListPlaces \cup {"P3"} :
        LET q == [placeId |-> placeId] IN
        Answer("getRatingsByPlace", q, ctl_getRatingsByPlace(q))

GetReviewsByPlace ==
    \E p \in Paging, placeId \in ListPlaces :
        LET q == With(p, [placeId |-> placeId]) IN
        Answer("getReviewsByPlace", q, ctl_getReviewsByPlace(q))

GetAllRatings ==
    \E p \in Paging, placeId \in {"", "P1"}, userId \in {undefined, 1} :
        LET q == With(p, [placeId |-> placeId, userId |-> userId,
                          businessTypeId |-> undefined]) IN
        Answer("getAllRatings", q, ctl_getAllRatings(q))

GetAllReviews ==
    \E p \in Paging, placeId \in {"", "P1"}, userId \in {undefined, 1} :
        LET q == With(p, [placeId |-> placeId, userId |-> userId]) IN
        Answer("getAllReviews", q, ctl_getAllReviews(q))

GetAllUsers ==
    \E p \in Paging, search \in {<<>>, <<"A">>}, role \in {"", "User"} :
        LET q == With(p, [search |-> search, role |-> role]) IN
        Answer("getAllUsers", q, ctl_getAllUsers(q))

GetAllImages ==
    \E p \in Paging, imageTypeId \in {undefined, 1} :
        LET q == With(p, [imageTypeId |-> imageTypeId]) IN
        Answer("getAllImages", q, ctl_getAllImages(q))

GetAllMessages ==
    \E p \in Paging, isRead \in {"", "true"}, requiresReply \in {"", "true"},
       category \in {"", "c1"} :
        LET q == With(p, [isRead |-> isRead, isReplied |-> "",
                          requiresReply |-> requiresReply, category |-> category]) IN
        Answer("getAllMessages", q, ctl_getAllMessages(q))

GetAllAds ==
    \E p \in Paging, isActive \in {"", "true"} :
        LET q == With(p, [isActive |-> isActive]) IN
        Answer("getAllAds", q, ctl_getAllAds(q))

GetUserActivityLogs ==
    \E p \in Paging, eventType \in {"", "rate"}, startDate \in {undefined, 2} :
        LET q == With(p, [eventType |-> eventType, eventCategory |-> "",
                          startDate |-> startDate, endDate |-> undefined]) IN
        Answer("getUserActivityLogs", q, ctl_getUserActivityLogs(q))

GetUserActivityLogsByUser ==
    \E p \in Paging, userId \in {1, 2}, eventType \in {"", "rate"} :
        LET q == With(p, [userId |-> userId, eventType |-> eventType,
                          eventCategory |-> "", startDate |-> undefined,
                          endDate |-> undefined]) IN
        Answer("getUserActivityLogsByUser", q, ctl_getUserActivityLogsByUser(q))

(* The stored rows the list specification starts from: n rows in each       *)
(* listed table, the ratings with any of the values a request can store.    *)
ListDb(n, values) ==
    LET userOf(i) == ((i - 1) % 2) + 1
        placeOf(i) == IF i % 3 = 0 THEN "P2" ELSE "P1"
    IN [ ratings |-> { [id |-> i, business_type_id |-> NULL, place_id |-> placeOf(i),
                        rating_value |-> values[i], user_id |-> userOf(i)] : i \in 1..n },
         reviews |-> { [id |-> i, consumer_rating_id |-> i, review |-> "t1",
                        place_id |-> placeOf(i), is_private |-> (i = 2),
                        is_active |-> TRUE, user_id |-> userOf(i),
                        moderation_notes |-> "NULL"] : i \in 1..n },
         images |-> { [id |-> i, image_type_id |-> 1, consumer_rating_id |-> NULL,
                       consumer_review_id |-> i, edu_dorm_id |-> NULL,
                       user_id |-> userOf(i), order_by_number |-> 0,
                       is_active |-> (i # 1), moderation_notes |-> "NULL"] : i \in 1..n },
         points |-> { [id |-> i, consumer_rating_id |-> i, points |-> GladPointsAward,
                       user_id |-> userOf(i), is_redeemed |-> FALSE] : i \in 1..n },
         answers |-> {},
         ads |-> { [id |-> i, content |-> "c", url |-> "", is_active |-> (i # 2)] :
                     i \in 1..n },
         messages |-> { [id |-> i, is_read |-> (i = 1), is_replied |-> FALSE,
                         requires_reply |-> TRUE,
                         category |-> IF i = 2 THEN "c1" ELSE "NULL"] : i \in 1..n },
         logs |-> { [id |-> i, user_id |-> userOf(i),
                     event_type |-> IF i = 1 THEN "login" ELSE "rate",
                     event_category |-> "auth", occurred_at |-> i] : i \in 1..n },
         serial |-> [ratings |-> n, reviews |-> n, images |-> n, points |-> n,
                     answers |-> 0, ads |-> n] ]

ListInit ==
    /\ \E n \in 0..MaxListRows : \E values \in [1..n -> ListValues] :
           InitDb(ListDb(n, values))
    /\ resp = NoExchange
    /\ calls = <<>>
    /\ listed = NoListing
    /\ deletions = {}
    /\ failure = NoFailure

ListNext ==
    \/ GetRatingsByPlace
    \/ GetReviewsByPlace
    \/ GetAllRatings
    \/ GetAllReviews
    \/ GetAllUsers
    \/ GetAllImages
    \/ GetAllMessages
    \/ GetAllAds
    \/ GetUserActivityLogs
    \/ GetUserActivityLogsByUser

ListSpec == ListInit /\ [][ListNext]_vars

----------------------------------------------------------------------------
(* Users: src/services/userService.js, src/controllers/userController.js    *)
(* and authController.js.  The user services read and write table users;    *)
(* a service call comes back with Ok or Throw carrying the table's rows.    *)

MaxUsers == 6        \* rows users may hold

(* Table roles. *)
roles == { [id |-> 1, role |-> "User"], [id |-> 2, role |-> "Admin"],
           [id |-> 3, role |-> "Guest"], [id |-> 4, role |-> "Moderator"] }

getUserById(us, id) ==
    IF parseInt(id) = NaN THEN Throw("22P02", us)
    ELSE LET result == { u \in us : u.id = parseInt(id) /\ u.is_deleted = FALSE } IN
         IF result = {} THEN Ok(null, us) ELSE Ok(CHOOSE u \in result : TRUE, us)

(* Every row the query may put first: the statement has no ORDER BY. *)
getUserByFirebaseUid(us, firebaseUid) ==
    { u \in us : u.firebase_uid = firebaseUid /\ u.is_deleted = FALSE }

(* INSERT INTO users ... RETURNING id, then getUserById of the new id. *)
createUser(us, userData) ==
    LET ids == { u.id : u \in us }
        userId == 1 + (CHOOSE m \in ids \cup {0} : \A k \in ids : k <= m)
        role == { r \in roles : r.id = userData.primaryRoleId }
        row == [ id |-> userId, firebase_uid |-> userData.firebaseUid,
                 primary_role_id |-> userData.primaryRoleId,
                 role |-> (CHOOSE r \in role : TRUE).role,
                 is_deleted |-> FALSE, is_active |-> (userData.isActive \/ TRUE),
                 first_name |-> userData.firstName, last_name |-> userData.lastName,
                 email |-> userData.email ]
    IN IF role = {} THEN Throw("23503", us)
       ELSE getUserById(us \cup {row}, userId)

getOrCreateGuestUser(us, firebaseUid, existingUser) ==
    IF existingUser # null THEN Ok(existingUser, us)
    ELSE LET roleResult == { r \in roles : r.role = "Guest" } IN
         IF roleResult = {} THEN Throw("", us)
         ELSE LET guestRoleId == (CHOOSE r \in roleResult : TRUE).id IN
              createUser(us, [ firebaseUid |-> firebaseUid, email |-> <<>>,
                               firstName |-> <<"G", "u", "e", "s", "t">>,
                               lastName |-> <<>>, primaryRoleId |-> guestRoleId,
                               isActive |-> TRUE ])

(* obj.key !== undefined: a request body is a record of its fields with    *)
(* `present`, the names of the fields the client sent.                      *)
Given(obj, key) == key \in obj.present

(* Only the fields of userData that are not undefined enter the SET clause. *)
updateUser(us, id, userData) ==
    IF parseInt(id) = NaN THEN Throw("22P02", us)
    ELSE getUserById(
           { IF u.id = parseInt(id)
             THEN [u EXCEPT !.first_name = IF Given(userData, "firstName")
                                           THEN userData.firstName ELSE @,
                            !.last_name = IF Given(userData, "lastName")
                                          THEN userData.lastName ELSE @]
             ELSE u : u \in us }, id)

(* The first statement of markUserAsDeleted: UPDATE users SET is_deleted ... *)
markUserAsDeleted_update(us, id) ==
    IF parseInt(id) = NaN THEN Throw("22P02", us)
    ELSE Ok(TRUE, { IF u.id = parseInt(id)
                    THEN [u EXCEPT !.is_deleted = TRUE, !.is_active = FALSE]
                    ELSE u : u \in us })

(* Its second statement: INSERT INTO deleted_users; the pool may fail it.   *)
markUserAsDeleted_insert(du, id, answered) ==
    IF ~ answered THEN Throw("08006", du)
    ELSE Ok(TRUE, du \cup { [user_id |-> parseInt(id)] })

(* What the user handlers leave alone. *)
UserFrame ==
    UNCHANGED <<secondary_user_roles, consumer_ratings, consumer_reviews, image_urls,
                consumer_glad_points, consumer_survey_question_answers, ads, messages,
                user_activity_logs, businesses, serial, calls, listed, failure>>

(* The answer to a request of the user routes; owner is the id of the user  *)
(* row the request returned or wrote.                                       *)
UserReply(op, allowed, actor, by, status, owner) ==
    resp' = [NoExchange EXCEPT !.op = op, !.allowed = allowed, !.actor = actor,
                               !.by = by, !.status = status, !.owner = owner]

GuestUids == {"", "uidG"}

(* The bearer tokens of the user requests: none, user 1, the Admin, a guest. *)
UserTokens == { [kind |-> "none", uid |-> ""] }
              \cup { [kind |-> "valid", uid |-> u] : u \in {"uid1", "uid3", "uidG"} }
OwnTokens == { t \in UserTokens : t.uid # "uid3" }
DeletableIds == {2}

(* POST /auth/guest-login: no middleware. *)
GuestLogin ==
    \E firebaseUid \in GuestUids :
        /\ IF ~ TruthyText(firebaseUid)
           THEN UserReply("guestLogin", NoGate, NULL, "handler", 400, NULL)
                /\ UNCHANGED users
           ELSE \E existingUser \in IF getUserByFirebaseUid(users, firebaseUid) = {}
                                    THEN {null}
                                    ELSE getUserByFirebaseUid(users, firebaseUid) :
                  LET user == getOrCreateGuestUser(users, firebaseUid, existingUser) IN
                  /\ Cardinality(user.t) <= MaxUsers
                  /\ users' = user.t
                  /\ IF user.threw
                     THEN UserReply("guestLogin", NoGate, NULL, "handler", 400, NULL)
                     ELSE UserReply("guestLogin", NoGate, NULL, "handler", 200,
                                    user.value.id)
        /\ UNCHANGED <<deleted_users, deletions>>
        /\ UserFrame

ProfileFields == SUBSET {"firstName", "lastName"}

(* PUT /users/profile, behind verifyToken. *)
UpdateProfile ==
    \E token \in OwnTokens, present \in ProfileFields :
        LET auth == verifyToken(token) IN
        /\ IF auth.status # NEXT
           THEN UserReply("updateProfile", NoGate, NULL, "verifyToken", auth.status, NULL)
                /\ UNCHANGED users
           ELSE LET updatedUser == updateUser(users, auth.user.userId,
                                      [present |-> present, firstName |-> <<"z">>,
                                       lastName |-> <<"z">>])
                IN /\ users' = updatedUser.t
                   /\ UserReply("updateProfile", NoGate, auth.user.userId, "handler",
                                IF updatedUser.threw THEN 400 ELSE 200,
                                auth.user.userId)
        /\ UNCHANGED <<deleted_users, deletions>>
        /\ UserFrame

(* markUserAsDeleted up to its second await: the UPDATE has been executed. *)
BeginDeletion(op, allowed, actor, id) ==
    LET updated == markUserAsDeleted_update(users, id) IN
    IF updated.threw
    THEN /\ UserReply(op, allowed, actor, "handler", 500, NULL)
         /\ UNCHANGED <<users, deletions>>
    ELSE /\ users' = updated.t
         /\ deletions' = deletions \cup { [op |-> op, allowed |-> allowed,
                                           actor |-> actor, id |-> id] }
         /\ UNCHANGED resp

(* DELETE /users/profile, behind verifyToken. *)
DeleteAccount ==
    \E token \in OwnTokens :
        LET auth == verifyToken(token) IN
        /\ IF auth.status # NEXT
           THEN UserReply("deleteAccount", NoGate, NULL, "verifyToken", auth.status, NULL)
                /\ UNCHANGED <<users, deletions>>
           ELSE BeginDeletion("deleteAccount", NoGate, auth.user.userId,
                              auth.user.userId)
        /\ UNCHANGED deleted_users
        /\ UserFrame

(* DELETE /users/:id, behind verifyToken and checkRole(['Admin']). *)
DeleteUser ==
    \E token \in UserTokens, id \in DeletableIds :
        LET auth == verifyToken(token)
            gate == checkRole(AdminOnly, auth.user)
        IN
        /\ IF auth.status # NEXT
           THEN UserReply("deleteUser", AdminOnly, NULL, "verifyToken", auth.status, NULL)
                /\ UNCHANGED <<users, deletions>>
           ELSE IF gate # NEXT
           THEN UserReply("deleteUser", AdminOnly, auth.user.userId, "checkRole", gate,
                          NULL)
                /\ UNCHANGED <<users, deletions>>
           ELSE BeginDeletion("deleteUser", AdminOnly, auth.user.userId, id)
        /\ UNCHANGED deleted_users
        /\ UserFrame

(* The second statement of a markUserAsDeleted call, and the answer of its  *)
(* controller: 200, or 500 when the statement failed.                       *)
FinishDeletion ==
    \E d \in deletions, answered \in BOOLEAN :
        LET inserted == markUserAsDeleted_insert(deleted_users, d.id, answered) IN
        /\ deleted_users' = inserted.t
        /\ deletions' = deletions \ {d}
        /\ UserReply(d.op, d.allowed, d.actor, "handler",
                     IF inserted.threw THEN 500 ELSE 200, d.id)
        /\ UNCHANGED users
        /\ UserFrame

UserNext ==
    \/ GuestLogin
    \/ UpdateProfile
    \/ DeleteAccount
    \/ DeleteUser
    \/ FinishDeletion

UserInit ==
    /\ InitDb(EmptyDb)
    /\ resp = NoExchange
    /\ calls = <<>>
    /\ listed = NoListing
    /\ deletions = {}
    /\ failure = NoFailure

UserSpec == UserInit /\ [][UserNext]_vars

----------------------------------------------------------------------------
(* Properties of the role gate and of the ownership checks. *)

(* The role set of a user id as the tables hold it: primary plus secondary. *)
RolesOf(userId) ==
    { u.role : u \in { x \in users : x.id = userId } }
        \cup { s.role : s \in { x \in secondary_user_roles : x.user_id = userId } }

(* The handlers that compare the target row's owner with the actor. *)
OwnershipOps == {"updateRating", "deleteRating", "updateReview", "deleteReview",
                 "deleteImage"}

(* The rows an ownership-checked handler may write, and their dependents. *)
ownedRows == <<consumer_ratings, consumer_reviews, image_urls,
               consumer_glad_points, consumer_survey_question_answers>>

(* The request reached the handler's ownership check with an existing target. *)
OwnershipChecked ==
    resp.op \in OwnershipOps /\ resp.by = "handler" /\ resp.owner # NULL

(* C1: on a route guarded by checkRole(allowedRoles) the handler runs only  *)
(* for a resolved user whose roles (primary and secondary) meet              *)
(* allowedRoles; checkRole answers 401 when there is no resolved user and   *)
(* 403 when the role sets are disjoint, and a request it answers leaves     *)
(* every table as it was.                                                   *)
C1_RoleGate ==
    [][ resp'.allowed # NoGate =>
          /\ resp'.by = "handler" =>
                /\ resp'.actor # NULL
                /\ RolesOf(resp'.actor) \cap resp'.allowed # {}
          /\ resp'.by = "checkRole" =>
                /\ resp'.actor = NULL => resp'.status = 401
                /\ resp'.actor # NULL =>
                      /\ resp'.status = 403
                      /\ RolesOf(resp'.actor) \cap resp'.allowed = {}
                /\ UNCHANGED <<tables, serial>> ]_vars

(* A user with no allowed role was answered 403 by the gate. *)
C1_Witness ==
    /\ resp.by = "checkRole" /\ resp.status = 403
    /\ resp.actor # NULL /\ resp.op = "moderateReview"

(* C2: updateRating, deleteRating, updateReview, deleteReview and           *)
(* deleteImage by an actor who is neither the target row's owner nor an     *)
(* Admin are answered 403, and the rating, review and image rows and their  *)
(* dependent rows are the same before and after.                            *)
C2_NonOwnerRejected ==
    [][ ( /\ resp'.op \in OwnershipOps /\ resp'.by = "handler"
          /\ resp'.owner # NULL
          /\ resp'.owner # resp'.actor
          /\ "Admin" \notin RolesOf(resp'.actor) )
        => (resp'.status = 403 /\ UNCHANGED ownedRows) ]_vars

(* User 2 asked to delete user 1's rating and was answered 403. *)
C2_Witness ==
    /\ resp.op = "deleteRating" /\ resp.by = "handler" /\ resp.status = 403
    /\ resp.actor = 2 /\ resp.owner = 1

(* C3: the ownership check lets a request through exactly when the actor is *)
(* the target row's owner or holds the Admin role; the owner's request on a *)
(* row they own is not answered 403.                                        *)
C3_OwnerOrAdminPermitted ==
    OwnershipChecked =>
        ( resp.status # 403
            <=> (resp.actor = resp.owner \/ "Admin" \in RolesOf(resp.actor)) )

(* No stored row is the rating or refers to it. *)
NoRowReferences(ratingId) ==
    /\ \A r \in consumer_ratings : r.id # ratingId
    /\ \A rv \in consumer_reviews : rv.consumer_rating_id # ratingId
    /\ \A i \in image_urls : i.consumer_rating_id # ratingId
    /\ \A a \in consumer_survey_question_answers : a.consumer_rating_id # ratingId
    /\ \A g \in consumer_glad_points : g.consumer_rating_id # ratingId

(* C4: a deleteRating request that passes the ownership check on an         *)
(* existing rating reports success, and then no row of consumer_reviews,    *)
(* image_urls (by rating or by a review of the rating),                     *)
(* consumer_survey_question_answers or consumer_glad_points references the  *)
(* rating, and the rating row is gone.                                      *)
C4_DeleteRatingCascades ==
    ( /\ resp.op = "deleteRating" /\ resp.by = "handler"
      /\ resp.owner # NULL /\ resp.status # 403 )
    => (resp.status = 200 /\ NoRowReferences(resp.id))

(* C10: every stored rating row has rating_value in 1..5, whatever integer  *)
(* ratingValue the createRating and updateRating requests carried.          *)
C10_RatingValueInRange ==
    \A r \in consumer_ratings : r.rating_value \in MinRating..MaxRating

----------------------------------------------------------------------------
(* Properties of addGladPoints. *)

PairRows(ratingId, userId) ==
    { g \in consumer_glad_points :
          g.consumer_rating_id = ratingId /\ g.user_id = userId }

SamePair(i, j) ==
    calls[i].ratingId = calls[j].ratingId /\ calls[i].userId = calls[j].userId

(* The pair names an existing rating and an existing user. *)
ValidPair(i) ==
    /\ calls[i].ratingId \in { r.id : r \in consumer_ratings }
    /\ calls[i].userId \in UserIds

(* Call i began with no row of its pair and returned before any other call  *)
(* of the pair began.                                                       *)
FirstOfPair(i) ==
    /\ calls[i].fresh
    /\ \A k \in 1..Len(calls) : (k # i /\ SamePair(i, k)) => i \in calls[k].after

ReturnedCreatedRow(i) ==
    /\ ~ calls[i].out.threw
    /\ calls[i].out.value \in PairRows(calls[i].ratingId, calls[i].userId)

ReturnedAlreadyAwarded(i) ==
    /\ ~ calls[i].out.threw
    /\ calls[i].out.value = [message |-> "Points already awarded for this rating"]

(* C5: of two addGladPoints calls for the same pair made one after the      *)
(* other, the first returns the created row and the second returns 'Points  *)
(* already awarded for this rating' without throwing, and exactly one row   *)
(* of the pair is stored, with points 10 and is_redeemed FALSE.             *)
C5_SecondAwardIsAbsorbed ==
    \A i, j \in 1..Len(calls) :
        ( /\ SamePair(i, j) /\ ValidPair(i)
          /\ FirstOfPair(i)
          /\ i \in calls[j].after
          /\ calls[j].pc = "done" )
        => /\ ReturnedCreatedRow(i)
           /\ ReturnedAlreadyAwarded(j)
           /\ Cardinality(PairRows(calls[i].ratingId, calls[i].userId)) = 1
           /\ \A g \in PairRows(calls[i].ratingId, calls[i].userId) :
                  g.points = 10 /\ g.is_redeemed = FALSE

(* Two calls for rating 2 and user 2, the second begun after the first returned. *)
C5_Witness ==
    \E i, j \in 1..Len(calls) :
        /\ SamePair(i, j) /\ ValidPair(i) /\ FirstOfPair(i)
        /\ i \in calls[j].after
        /\ calls[j].pc = "done"

AtMostOneRowPerPair ==
    \A g1, g2 \in consumer_glad_points :
        (g1.consumer_rating_id = g2.consumer_rating_id /\ g1.user_id = g2.user_id)
            => g1 = g2

ReturnedCallsNonError ==
    \A i \in 1..Len(calls) :
        (calls[i].pc = "done" /\ ValidPair(i))
            => (ReturnedCreatedRow(i) \/ ReturnedAlreadyAwarded(i))

Began(i) == i \in 1..Len(calls)
Returned(i) == i \in 1..Len(calls) /\ calls[i].pc = "done"

(* A call's next step can be taken whatever the other calls are doing. *)
NoCallWaits ==
    \A i \in 1..Len(calls) :
        /\ calls[i].pc = "insert" => ENABLED InsertPoints(i)
        /\ calls[i].pc = "select" => ENABLED SelectPoints(i)

(* C6: however concurrent addGladPoints calls for one pair interleave, at   *)
(* most one row of the pair is ever stored, no call waits for another, and  *)
(* every call returns, with the created row or with the 'already awarded'   *)
(* result.                                                                  *)
C6_ConcurrentAwards ==
    /\ [](AtMostOneRowPerPair /\ ReturnedCallsNonError /\ NoCallWaits)
    /\ \A i \in 1..MaxCalls : [](Began(i) => <>Returned(i))

(* Two calls of one pair were both past their start before either returned, *)
(* and both have returned.                                                  *)
C6_Witness ==
    \E i, j \in 1..Len(calls) :
        /\ i # j /\ SamePair(i, j) /\ ValidPair(i)
        /\ i \notin calls[j].after /\ j \notin calls[i].after
        /\ calls[i].pc = "done" /\ calls[j].pc = "done"
        /\ ReturnedCreatedRow(i) /\ ReturnedAlreadyAwarded(j)

----------------------------------------------------------------------------
(* Properties of the list and aggregation queries. *)

PagedOps == {"getAllRatings", "getAllReviews", "getReviewsByPlace", "getAllUsers",
             "getAllImages", "getAllMessages", "getAllAds", "getUserActivityLogs",
             "getUserActivityLogsByUser"}

(* The controller a listing came from, asked again with query q. *)
Listing(op, q) ==
    CASE op = "getReviewsByPlace" -> ctl_getReviewsByPlace(q)
      [] op = "getAllRatings" -> ctl_getAllRatings(q)
      [] op = "getAllReviews" -> ctl_getAllReviews(q)
      [] op = "getAllUsers" -> ctl_getAllUsers(q)
      [] op = "getAllImages" -> ctl_getAllImages(q)
      [] op = "getAllMessages" -> ctl_getAllMessages(q)
      [] op = "getAllAds" -> ctl_getAllAds(q)
      [] op = "getUserActivityLogs" -> ctl_getUserActivityLogs(q)
      [] op = "getUserActivityLogsByUser" -> ctl_getUserActivityLogsByUser(q)

(* The least k with k * limit >= total. *)
CeilingOf(total, limit) ==
    CHOOSE k \in 0..total : k * limit >= total /\ (k = 0 \/ (k - 1) * limit < total)

AskedPage == IF listed.query.page = undefined THEN 1 ELSE listed.query.page
AskedLimit == IF listed.query.limit = undefined THEN 10 ELSE listed.query.limit

(* C7: every paged list operation returns totalPages = ceil(total/limit),   *)
(* hasNextPage = (page < totalPages), hasPrevPage = (page > 1), reads its    *)
(* data at offset (page-1)*limit, and takes page 1 and limit 10 when the     *)
(* request names none.                                                       *)
C7_Pagination ==
    listed.op \in PagedOps =>
        LET pg == listed.result.pagination IN
        /\ pg.page = AskedPage
        /\ pg.limit = AskedLimit
        /\ pg.total >= 0
        /\ pg.totalPages = CeilingOf(pg.total, AskedLimit)
        /\ pg.hasNextPage = (AskedPage < pg.totalPages)
        /\ pg.hasPrevPage = (AskedPage > 1)
        /\ listed.result.offset = (AskedPage - 1) * AskedLimit

(* Three ratings listed two to a page, no page named: two pages, a next one. *)
C7_Witness ==
    /\ listed.op = "getAllRatings"
    /\ listed.query.page = undefined /\ listed.query.limit = 2
    /\ listed.result.pagination.total = 3
    /\ listed.result.pagination.totalPages = 2
    /\ listed.result.pagination.hasNextPage

Rows(seq) == { seq[i] : i \in 1..Len(seq) }

(* C8: the total a paged list call returns is the number of rows its data   *)
(* pages are drawn from: pages 1..totalPages of the same call, taken        *)
(* together, hold exactly total rows, none of them twice.                   *)
C8_TotalMatchesData ==
    listed.op \in PagedOps =>
        LET pg == listed.result.pagination
            dataOf(p) == Listing(listed.op, [listed.query EXCEPT !.page = p]).data
        IN /\ Cardinality(UNION { Rows(dataOf(p)) : p \in 1..pg.totalPages }) = pg.total
           /\ \A p \in 1..pg.totalPages :
                 /\ Cardinality(Rows(dataOf(p))) = Len(dataOf(p))
                 /\ \A p2 \in 1..pg.totalPages :
                        p # p2 => Rows(dataOf(p)) \cap Rows(dataOf(p2)) = {}
           /\ listed.result.data = dataOf(AskedPage)

(* A place with a public and a private review: the list counts the public one. *)
C8_Witness ==
    /\ listed.op = "getReviewsByPlace"
    /\ \E r \in consumer_reviews : r.place_id = listed.query.placeId /\ r.is_private
    /\ listed.result.pagination.total = 1
    /\ Len(listed.result.data) = 1

RECURSIVE SumOfValues(_)
SumOfValues(S) ==
    IF S = {} THEN 0
    ELSE LET x == CHOOSE y \in S : TRUE IN x.rating_value + SumOfValues(S \ {x})

(* C9: getRatingsByPlace returns totalRatings = the number of the place's   *)
(* ratings, averageRating = sum(rating_value)/totalRatings, ratingCounts[v] *)
(* = the number of ratings of value v for v in 1..5 (so the five buckets    *)
(* add up to the ratings with a value in 1..5), and for a place with no     *)
(* rating average 0, total 0 and five buckets of 0.                         *)
C9_PlaceSummary ==
    listed.op = "getRatingsByPlace" =>
        LET r == listed.result
            ofPlace == { x \in consumer_ratings : x.place_id = listed.query.placeId }
            n == Cardinality(ofPlace)
        IN /\ r.totalRatings = n
           /\ r.averageRating.den > 0
           /\ r.averageRating.num * (IF n = 0 THEN 1 ELSE n)
                  = SumOfValues(ofPlace) * r.averageRating.den
           /\ \A v \in 1..5 :
                  r.ratingCounts[v] = Cardinality({ x \in ofPlace : x.rating_value = v })
           /\ r.ratingCounts[1] + r.ratingCounts[2] + r.ratingCounts[3]
                  + r.ratingCounts[4] + r.ratingCounts[5]
                = Cardinality({ x \in ofPlace : x.rating_value \in 1..5 })
           /\ n = 0 => (r.averageRating.num = 0 /\ \A v \in 1..5 : r.ratingCounts[v] = 0)

(* A place with a rating of 5 and a rating of 0: total 2, one rating counted. *)
C9_Witness ==
    /\ listed.op = "getRatingsByPlace"
    /\ listed.result.totalRatings = 2
    /\ listed.result.ratingCounts[5] = 1
    /\ \E x \in consumer_ratings :
           x.place_id = listed.query.placeId /\ x.rating_value = 0

----------------------------------------------------------------------------
(* Properties of the image and review life cycle. *)

(***************************************************************************)
(* GuestSpec: guest-login requests that run concurrently.  Each await of   *)
(* getOrCreateGuestUser (the lookup by firebase_uid, the lookup of the     *)
(* Guest role, the INSERT of createUser) is a step of its own; calls holds *)
(* the requests with the statement each one awaits.                        *)
(***************************************************************************)

ConcurrentUids == {"uid1", "uidG", "uidH"}    \* uid1 has a user row

GuestFrame ==
    UNCHANGED <<secondary_user_roles, consumer_ratings, consumer_reviews, image_urls,
                consumer_glad_points, consumer_survey_question_answers, ads, messages,
                user_activity_logs, deleted_users, businesses, serial, resp, listed,
                deletions, failure>>

(* POST /auth/guest-login arrives: the controller has the firebaseUid and   *)
(* calls getOrCreateGuestUser, which awaits getUserByFirebaseUid.           *)
ReceiveGuestLogin ==
    \E firebaseUid \in ConcurrentUids :
        /\ Len(calls) < MaxCalls
        /\ calls' = Append(calls, [firebaseUid |-> firebaseUid, awaits |-> "existingUser",
                                   guestRoleId |-> NULL, user |-> NULL])
        /\ UNCHANGED users
        /\ GuestFrame

(* getUserByFirebaseUid answers: the existing user is returned, or the call *)
(* goes on to the lookup of the Guest role.                                 *)
ExistingUserAnswered(i) ==
    /\ i \in 1..Len(calls)
    /\ calls[i].awaits = "existingUser"
    /\ LET found == getUserByFirebaseUid(users, calls[i].firebaseUid) IN
       IF found = {}
       THEN calls' = [calls EXCEPT ![i].awaits = "roleResult"]
       ELSE \E existingUser \in found :
                calls' = [calls EXCEPT ![i].awaits = "none", ![i].user = existingUser.id]
    /\ UNCHANGED users
    /\ GuestFrame

(* SELECT id FROM roles WHERE role = 'Guest' answers; createUser is called  *)
(* and awaits its INSERT.                                                   *)
RoleResultAnswered(i) ==
    /\ i \in 1..Len(calls)
    /\ calls[i].awaits = "roleResult"
    /\ LET roleResult == { r \in roles : r.role = "Guest" } IN
       calls' = [calls EXCEPT ![i].awaits = "insert",
                              ![i].guestRoleId = (CHOOSE r \in roleResult : TRUE).id]
    /\ UNCHANGED users
    /\ GuestFrame

(* The INSERT of createUser and its getUserById answer; the controller      *)
(* answers 200 with the user.                                               *)
InsertAnswered(i) ==
    /\ i \in 1..Len(calls)
    /\ calls[i].awaits = "insert"
    /\ Cardinality(users) < MaxUsers
    /\ LET user == createUser(users, [ firebaseUid |-> calls[i].firebaseUid,
                                       email |-> <<>>,
                                       firstName |-> <<"G", "u", "e", "s", "t">>,
                                       lastName |-> <<>>,
                                       primaryRoleId |-> calls[i].guestRoleId,
                                       isActive |-> TRUE ])
       IN /\ users' = user.t
          /\ calls' = [calls EXCEPT ![i].awaits = "none", ![i].user = user.value.id]
    /\ GuestFrame

GuestNext ==
    \/ ReceiveGuestLogin
    \/ \E i \in 1..MaxCalls : ExistingUserAnswered(i)
    \/ \E i \in 1..MaxCalls : RoleResultAnswered(i)
    \/ \E i \in 1..MaxCalls : InsertAnswered(i)

GuestSpec == UserInit /\ [][GuestNext]_vars

(***************************************************************************)
(* RaceSpec: deleteRating requests whose awaits are steps of their own,    *)
(* interleaved with createReview and uploadImage requests.  calls holds    *)
(* the deleteRating requests with the query each one awaits.               *)
(***************************************************************************)

(* The tables after a step of a request in calls. *)
Written(t) ==
    /\ consumer_ratings' = t.ratings
    /\ consumer_reviews' = t.reviews
    /\ image_urls' = t.images
    /\ consumer_glad_points' = t.points
    /\ consumer_survey_question_answers' = t.answers
    /\ ads' = t.ads
    /\ serial' = t.serial
    /\ UNCHANGED <<users, secondary_user_roles, messages, user_activity_logs,
                   deleted_users, businesses, listed, deletions, failure>>

Without(s, i) == SubSeq(s, 1, i - 1) \o SubSeq(s, i + 1, Len(s))

(* The answer of a deleteRating request in calls. *)
DeleteRatingReply(i, status, target) ==
    /\ resp' = [NoExchange EXCEPT !.op = "deleteRating", !.id = calls[i].id,
                                  !.actor = calls[i].user.userId, !.by = "handler",
                                  !.status = status,
                                  !.owner = IF target = null THEN NULL ELSE target.user_id]
    /\ calls' = Without(calls, i)

(* DELETE /ratings/:id passes verifyToken; the controller awaits            *)
(* getRatingById.                                                           *)
ReceiveDeleteRating ==
    \E token \in Tokens, id \in RatingIds :
        LET auth == verifyToken(token) IN
        /\ Len(calls) < MaxCalls
        /\ IF auth.status # NEXT
           THEN /\ resp' = [NoExchange EXCEPT !.op = "deleteRating", !.id = id,
                                              !.by = "verifyToken",
                                              !.status = auth.status]
                /\ UNCHANGED calls
           ELSE /\ calls' = Append(calls, [id |-> id, user |-> auth.user,
                                           awaits |-> "rating"])
                /\ UNCHANGED resp
        /\ Written(Cur)

(* getRatingById answers: 404, 403, or the controller calls the service's   *)
(* deleteRating, which awaits its SELECT of the rating's reviews.           *)
RatingAnswered(i) ==
    /\ i \in 1..Len(calls)
    /\ calls[i].awaits = "rating"
    /\ LET rating == getRatingById(Cur, calls[i].id) IN
       IF rating.threw THEN DeleteRatingReply(i, 500, null)
       ELSE IF rating.value = null THEN DeleteRatingReply(i, 404, null)
       ELSE IF notAuthorized(rating.value, calls[i].user)
       THEN DeleteRatingReply(i, 403, rating.value)
       ELSE /\ calls' = [calls EXCEPT ![i].awaits = "reviewsResult"]
            /\ UNCHANGED resp
    /\ Written(Cur)

(* The SELECT of the reviews answers; the service hands its callback to     *)
(* db.transaction and the controller answers 200, or 500 from its catch.    *)
ReviewsAnswered(i) ==
    /\ i \in 1..Len(calls)
    /\ calls[i].awaits = "reviewsResult"
    /\ LET deleted == deleteRating(Cur, calls[i].id)
           rating == { r \in consumer_ratings : r.id = calls[i].id }
           target == IF rating = {} THEN null ELSE CHOOSE r \in rating : TRUE
       IN /\ DeleteRatingReply(i, IF deleted.threw THEN 500 ELSE 200, target)
          /\ Written(deleted.t)

RaceNext ==
    \/ ReceiveDeleteRating
    \/ \E i \in 1..MaxCalls : RatingAnswered(i)
    \/ \E i \in 1..MaxCalls : ReviewsAnswered(i)
    \/ CreateReview
    \/ UploadImage

RaceSpec == MediaInit /\ [][RaceNext]_vars

(***************************************************************************)
(* BusinessSpec: PUT /business/businesses/:id, behind verifyToken.         *)
(***************************************************************************)

BusinessIds == {1, 2, 3}      \* 3 is the id of no row

(* SELECT b.* FROM businesses b ... WHERE b.id = $1 *)
getBusinessById(bs, id) ==
    IF parseInt(id) = NaN THEN Throw("22P02", bs)
    ELSE LET result == { b \in bs : b.id = parseInt(id) } IN
         IF result = {} THEN Ok(null, bs) ELSE Ok(CHOOSE b \in result : TRUE, bs)

(* The fields of businessData that are not undefined enter the SET clause, *)
(* with last_updated; then the row is read again.                           *)
updateBusiness(bs, id, businessData) ==
    IF parseInt(id) = NaN THEN Throw("22P02", bs)
    ELSE getBusinessById(
           { IF b.id = parseInt(id)
             THEN [b EXCEPT !.business_name = IF Given(businessData, "businessName")
                                              THEN businessData.businessName ELSE @,
                            !.is_active = IF Given(businessData, "isActive")
                                          THEN businessData.isActive ELSE @]
             ELSE b : b \in bs }, id)

(* The controller without its authorisation: every actor may update, and   *)
(* isActive is taken from the body.                                         *)
ctl_updateBusiness_anyActor(user, id, body) ==
    LET business == getBusinessById(businesses, id) IN
    IF business.threw THEN Reply(400, null, business.t)
    ELSE IF business.value = null THEN Reply(404, null, businesses)
    ELSE LET updatedBusiness == updateBusiness(businesses, id, body) IN
         IF updatedBusiness.threw THEN Reply(400, business.value, updatedBusiness.t)
         ELSE Reply(200, business.value, updatedBusiness.t)

(* isActive: isAdmin ? isActive : business.isActive *)
ctl_updateBusiness(user, id, body) ==
    LET business == getBusinessById(businesses, id) IN
    IF business.threw THEN Reply(400, null, business.t)
    ELSE IF business.value = null THEN Reply(404, null, businesses)
    ELSE LET isOwner == Prop(business.value, "userId") = user.userId
             isAdmin == includes(user.roles, "Admin")
             isActiveGiven == IF isAdmin THEN Given(body, "isActive")
                              ELSE Prop(business.value, "isActive") # undefined
             businessData ==
                 [ present |-> (body.present \ {"isActive"})
                                 \cup (IF isActiveGiven THEN {"isActive"} ELSE {}),
                   businessName |-> body.businessName,
                   isActive |-> IF isAdmin THEN body.isActive
                                ELSE Prop(business.value, "isActive") ]
         IN IF ~ isOwner /\ ~ isAdmin THEN Reply(403, business.value, businesses)
            ELSE LET updatedBusiness == updateBusiness(businesses, id, businessData) IN
                 IF updatedBusiness.threw
                 THEN Reply(400, business.value, updatedBusiness.t)
                 ELSE Reply(200, business.value, updatedBusiness.t)

UpdateBusiness ==
    \E token \in Tokens, id \in BusinessIds,
       present \in SUBSET {"businessName", "isActive"}, isActive \in BOOLEAN :
        LET body == [present |-> present, businessName |-> "n2", isActive |-> isActive]
            auth == verifyToken(token)
            req == [NoExchange EXCEPT !.op = "updateBusiness", !.id = id, !.body = body]
        IN /\ IF auth.status # NEXT
              THEN /\ resp' = [req EXCEPT !.by = "verifyToken", !.status = auth.status]
                   /\ UNCHANGED businesses
              ELSE LET out == ctl_updateBusiness(auth.user, id, body) IN
                   /\ resp' = [req EXCEPT !.by = "handler", !.status = out.status,
                                          !.actor = auth.user.userId,
                                          !.owner = IF out.target = null THEN NULL
                                                    ELSE out.target.user_id]
                   /\ businesses' = out.t
           /\ UNCHANGED <<users, secondary_user_roles, consumer_ratings, consumer_reviews,
                          image_urls, consumer_glad_points,
                          consumer_survey_question_answers, ads, messages,
                          user_activity_logs, deleted_users, serial, calls, listed,
                          deletions, failure>>

BusinessNext == UpdateBusiness

BusinessSpec == Init /\ [][BusinessNext]_vars

(***************************************************************************)
(* ErrorSpec: one failed statement at a time, followed through the catch   *)
(* blocks to the response.                                                 *)
(***************************************************************************)

ErrorFrame == UNCHANGED <<tables, serial, resp, calls, listed, deletions>>

(* A statement of a service call fails in the driver. *)
StatementFails ==
    \E statement \in Statements, code \in DbCodes :
        /\ failure.stage \in {"none", "answered", "resolved"}
        /\ failure' = [NoFailure EXCEPT !.stage = "service", !.statement = statement,
                                        !.code = code, !.err = dbError(code)]
        /\ ErrorFrame

(* The service's catch block: throw createError(message, 500, error); in   *)
(* addGladPoints a unique violation is returned as a value instead, and    *)
(* createRating goes on to answer 201.                                     *)
ServiceCatch ==
    /\ failure.stage = "service"
    /\ failure' = IF failure.statement = "addGladPoints" /\ failure.err.code = "23505"
                  THEN [failure EXCEPT !.stage = "answered", !.status = 201]
                  ELSE [failure EXCEPT !.stage = "controller",
                                       !.err = createError(500, failure.err)]
    /\ ErrorFrame

(* The controller's catch block: next(createError(error.message, s, error)). *)
ControllerCatch ==
    /\ failure.stage = "controller"
    /\ failure' = [failure EXCEPT !.stage = "errorHandler",
                       !.err = createError(CatchStatus(Controller(failure.statement)),
                                           failure.err)]
    /\ ErrorFrame

(* errorHandler answers. *)
ErrorHandler ==
    /\ failure.stage = "errorHandler"
    /\ failure' = [failure EXCEPT !.stage = "answered", !.status = errorHandler(failure.err)]
    /\ ErrorFrame

(* verifyToken on a request, with the database reachable or not while     *)
(* getUserRole runs.                                                       *)
Authenticate ==
    \E token \in Tokens, answered \in BOOLEAN :
        LET auth == verifyToken_catch(token, answered) IN
        /\ resp' = [NoExchange EXCEPT !.op = "verifyToken", !.by = "verifyToken",
                                      !.status = auth.status,
                                      !.actor = IF auth.user = null THEN NULL
                                                ELSE auth.user.userId]
        /\ failure' = [NoFailure EXCEPT !.stage = "resolved",
                           !.statement = "getUserRole",
                           !.code = IF token.kind = "valid" /\ ~ answered THEN "08006"
                                    ELSE "",
                           !.token = token, !.user = auth.user]
        /\ UNCHANGED <<tables, serial, calls, listed, deletions>>

(* The statements of a createRating request, in the order they are        *)
(* awaited; "none" when the pool answers them all.                          *)
CreateRatingStatements == {"none", "insertRating", "selectRating", "insertPoints",
                           "selectPoints"}

(* The createRating controller over a pool that fails the statement         *)
(* `fails`: the statements before it have been executed, each on its own,   *)
(* when the error reaches the controller's catch.                           *)
ctl_createRating_failing(user, body, fails) ==
    IF fails = "insertRating" THEN Reply(400, null, Cur)
    ELSE LET rating == createRating(Cur, [ businessTypeId |-> body.businessTypeId,
                                           placeId |-> body.placeId,
                                           ratingValue |-> body.ratingValue,
                                           userId |-> user.userId ])
         IN IF rating.threw THEN Reply(400, null, rating.t)
            ELSE IF fails \in {"selectRating", "insertPoints"}
            THEN Reply(400, null, rating.t)
            ELSE LET points == addGladPoints(rating.t, rating.value.id, user.userId) IN
                 IF points.threw THEN Reply(400, null, points.t)
                 ELSE IF fails = "selectPoints" THEN Reply(400, null, points.t)
                 ELSE Reply(201, rating.value, points.t)

(* POST /ratings while the pool may fail one of the request's statements. *)
CreateRatingOverPool ==
    \E token \in Tokens, fails \in CreateRatingStatements :
        /\ serial.ratings < MaxRatings
        /\ Exchange("createRating", token, TRUE, NoGate, NULL,
              LAMBDA user : ctl_createRating_failing(user,
                  [ businessTypeId |-> undefined, placeId |-> "P1",
                    ratingValue |-> MaxRating ], fails))

ErrorNext ==
    \/ Authenticate
    \/ CreateRatingOverPool
    \/ StatementFails
    \/ ServiceCatch
    \/ ControllerCatch
    \/ ErrorHandler

ErrorSpec == Init /\ [][ErrorNext]_vars

(* C11: an image that is inactive stays inactive: no step of uploadImage,   *)
(* deleteImage or moderateImage turns the is_active flag of a stored image  *)
(* from FALSE back to TRUE.                                                 *)
C11_NoReactivation ==
    [][ \A i \in image_urls : \A j \in image_urls' :
            (j.id = i.id /\ ~ i.is_active) => ~ j.is_active ]_vars

(* The image reads of src/services/mediaService.js: each selects the rows   *)
(* of image_urls (joined with image_types) that are active and carry the    *)
(* given reference.                                                         *)
getImagesByUser(userId) ==
    { i \in image_urls : /\ i.image_type_id \in ImageTypeIds
                          /\ i.user_id = parseInt(userId) /\ i.is_active = TRUE }

getImagesByRating(ratingId) ==
    { i \in image_urls : /\ i.image_type_id \in ImageTypeIds
                          /\ i.consumer_rating_id = parseInt(ratingId)
                          /\ i.is_active = TRUE }

getImagesByReview(reviewId) ==
    { i \in image_urls : /\ i.image_type_id \in ImageTypeIds
                          /\ i.consumer_review_id = parseInt(reviewId)
                          /\ i.is_active = TRUE }

getImagesByDorm(dormId) ==
    { i \in image_urls : /\ i.image_type_id \in ImageTypeIds
                          /\ i.edu_dorm_id = parseInt(dormId) /\ i.is_active = TRUE }

(* The images getReviewsByPlace attaches to the reviews of its page. *)
getReviewsByPlace_images(reviewIds) ==
    { i \in image_urls : i.consumer_review_id \in reviewIds /\ i.is_active = TRUE }

(* The ids of the images some read returns in the present state. *)
ShownImages ==
    LET byId == UNION { IF getReviewById(Cur, id).value = null THEN {}
                        ELSE getReviewById(Cur, id).value.images : id \in ReviewIds }
        all == UNION { Rows(ctl_getAllImages([page |-> p, limit |-> undefined,
                                              imageTypeId |-> ty]).data) :
                         p \in {undefined, 2}, ty \in {undefined} \cup ImageTypeIds }
        rows == UNION { getImagesByUser(u) : u \in UserIds }
                  \cup UNION { getImagesByRating(r) : r \in RatingIds }
                  \cup UNION { getImagesByReview(rv) : rv \in ReviewIds }
                  \cup UNION { getImagesByDorm(d) : d \in DormIds }
                  \cup getReviewsByPlace_images({ rv.id : rv \in consumer_reviews })
                  \cup byId \cup all
    IN { i.id : i \in rows }

(* The last request was a deleteImage of image k that succeeded. *)
DeleteImageSucceeded(k) ==
    resp.op = "deleteImage" /\ resp.by = "handler" /\ resp.status = 200 /\ resp.id = k

(* A deleteImage that succeeds keeps the row, sets is_active to FALSE and   *)
(* leaves the other columns and rows as they were, and no read returns the  *)
(* image in the state it leaves.                                            *)
DeleteImageIsSoft ==
    [][ \A k \in ImageIds : DeleteImageSucceeded(k)' =>
          /\ \E i \in image_urls : i.id = k
          /\ image_urls' = { IF i.id = k THEN [i EXCEPT !.is_active = FALSE] ELSE i :
                               i \in image_urls }
          /\ k \notin ShownImages' ]_vars

(* C12: after deleteImage(id) succeeds the row is still stored, inactive    *)
(* and otherwise unchanged, and from then on no read (getImagesByUser,      *)
(* getImagesByRating, getImagesByReview, getImagesByDorm, getAllImages, the *)
(* images of getReviewById and getReviewsByPlace) returns the image.        *)
C12_DeletedImageStaysHidden ==
    [][ \A k \in ImageIds :
          /\ DeleteImageSucceeded(k)' =>
                /\ \E i \in image_urls' : i.id = k /\ ~ i.is_active
                /\ k \notin ShownImages'
          /\ DeleteImageSucceeded(k) => k \notin ShownImages' ]_vars

----------------------------------------------------------------------------
(* Properties of the user accounts. *)

(* The last request was a guest login that answered with a user. *)
GuestLoggedIn == resp.op = "guestLogin" /\ resp.status = 200

(* C13: guest-login with a firebaseUid answers with the one user row of     *)
(* that firebase_uid: the same row every time it is called with that uid,   *)
(* whatever requests came in between, and it never leaves a second row with *)
(* the uid.                                                                 *)
C13_GuestLoginIdempotent ==
    [][ GuestLoggedIn' =>
          \A g \in users' : g.id = resp'.owner =>
              /\ \A u \in users : u.firebase_uid = g.firebase_uid => u.id = g.id
              /\ \A u \in users' : u.firebase_uid = g.firebase_uid => u.id = g.id ]_vars

(* No step removes a row of users; a deletion only sets is_deleted and      *)
(* clears is_active.                                                        *)
UsersNeverRemoved ==
    [][ \A u \in users : \E v \in users' :
            /\ v.id = u.id /\ v.firebase_uid = u.firebase_uid
            /\ (u.is_deleted => v.is_deleted)
            /\ (v.is_deleted => ~ v.is_active) ]_vars

(* C14: no operation removes a row of users, and every user row with        *)
(* is_deleted = TRUE has an audit row in deleted_users: in no state is the  *)
(* flag set without the audit row, also when the second statement of        *)
(* markUserAsDeleted fails.                                                 *)
C14_SoftDeleteIsAudited ==
    [][ /\ \A u \in users : \E v \in users' : v.id = u.id
        /\ \A v \in users' : v.is_deleted => \E d \in deleted_users' : d.user_id = v.id
      ]_vars

----------------------------------------------------------------------------
(* Properties of the update operations. *)

(* updateUser writes only the fields its input names: a request that names  *)
(* no firstName leaves first_name as it was, and likewise last_name.        *)
UpdateUserIsPartial ==
    [][ resp'.op = "updateProfile" =>
          \A u \in users : \E v \in users' :
              /\ v.id = u.id
              /\ v.first_name \in {u.first_name, <<"z">>}
              /\ v.last_name \in {u.last_name, <<"z">>}
              /\ (v.id # resp'.actor =>
                    v.first_name = u.first_name /\ v.last_name = u.last_name) ]_vars

(* C15: an update writes only the fields its input names.  Every updateAd   *)
(* request carries content "c2" and isActive TRUE and carries either no url *)
(* or url "u2": after it each ad's url is the url it had or "u2".           *)
C15_UpdateIsPartial ==
    [][ resp'.op = "updateAd" =>
          \A a \in ads : \E b \in ads' : b.id = a.id /\ b.url \in {a.url, "u2"} ]_vars

(* C16: deleteReview is a soft delete: a deleteReview request that passes   *)
(* the ownership check on an existing review reports success and leaves the *)
(* review row stored, with is_active = FALSE.                               *)
C16_DeleteReviewIsSoft ==
    ( /\ resp.op = "deleteReview" /\ resp.by = "handler"
      /\ resp.owner # NULL /\ resp.status # 403 )
    => /\ resp.status = 200
       /\ \E rv \in consumer_reviews : rv.id = resp.id /\ rv.is_active = FALSE

(* The status the error taxonomy assigns to a failed statement's code. *)
MappedStatus(code) ==
    IF code \in {"08003", "08006", "57P01"} THEN 503
    ELSE IF code = "42P01" THEN 500
    ELSE IF code = "23505" THEN 409
    ELSE IF code = "23503" THEN 400
    ELSE 500

(* C17: when a statement issued by a service fails with a database error   *)
(* code, the response produced through the controller's catch and          *)
(* errorHandler carries the status mapped to that code (503, 500, 409, 400, *)
(* unknown codes 500), except that addGladPoints absorbs a unique          *)
(* violation and the request succeeds.                                     *)
C17_StatusFollowsCode ==
    failure.stage = "answered"
    => IF failure.statement = "addGladPoints" /\ failure.code = "23505"
       THEN failure.status < 400
       ELSE failure.status = MappedStatus(failure.code)

(* C18: an update or delete by id that matches no row is answered with     *)
(* 404: when the handler of updateAd or deleteAd answers a request naming   *)
(* an id no ads row has, the status is 404.                                 *)
C18_MissingIdIs404 ==
    [][ ( /\ resp'.op \in {"updateAd", "deleteAd"}
          /\ resp'.by = "handler"
          /\ ~ \E a \in ads : a.id = resp'.id )
        => resp'.status = 404 ]_vars

(* C19: a request whose id parameter is not a number (parseInt gives NaN)  *)
(* is answered by the handler with a client error, 4xx, never with 500 or  *)
(* 503; checked on deleteRating.                                           *)
C19_NonNumericIdIsClientError ==
    ( /\ resp.op = "deleteRating" /\ resp.by = "handler"
      /\ parseInt(resp.id) = NaN )
    => resp.status \in 400..499

(* The number of entities an image row is attached to. *)
Attachments(i) ==
    Cardinality({ c \in {"consumer_rating_id", "consumer_review_id", "edu_dorm_id"} :
                    i[c] # NULL })

(* C20: in every reachable state each image_urls row is attached to at     *)
(* most one of rating, review and dorm: at most one of consumer_rating_id, *)
(* consumer_review_id and edu_dorm_id is not NULL.                         *)
C20_ImageHasOneParent ==
    \A i \in image_urls : Attachments(i) <= 1

ChildrenHaveParent ==
    /\ \A rv \in consumer_reviews :
           \E r \in consumer_ratings : r.id = rv.consumer_rating_id
    /\ \A i \in image_urls :
           /\ i.consumer_rating_id # NULL =>
                  \E r \in consumer_ratings : r.id = i.consumer_rating_id
           /\ i.consumer_review_id # NULL =>
                  \E rv \in consumer_reviews : rv.id = i.consumer_review_id
    /\ \A a \in consumer_survey_question_answers :
           \E r \in consumer_ratings : r.id = a.consumer_rating_id
    /\ \A g \in consumer_glad_points :
           \E r \in consumer_ratings : r.id = g.consumer_rating_id

(* C22: the cascading delete of a rating issues its statements children    *)
(* before parent as one unit: a deleteRating request that passes the        *)
(* ownership check removes the rows referencing the rating and, last, the   *)
(* rating row, and no step ever leaves a row referencing a removed parent.  *)
C22_CascadeChildrenFirst ==
    [][ /\ ChildrenHaveParent => ChildrenHaveParent'
        /\ ( /\ resp'.op = "deleteRating" /\ resp'.by = "handler"
             /\ resp'.owner # NULL /\ resp'.status # 403 )
           => /\ \E r \in consumer_ratings : r.id = resp'.id
              /\ ~ \E r \in consumer_ratings' : r.id = resp'.id ]_vars

(* The tables after a step. *)
CurAfter == [ ratings |-> consumer_ratings', reviews |-> consumer_reviews',
              images |-> image_urls', points |-> consumer_glad_points',
              answers |-> consumer_survey_question_answers', ads |-> ads',
              serial |-> serial' ]

(* A deleteRating or deleteReview request that reached the service's unit   *)
(* of work: the row exists and the ownership check passed.                  *)
ReachedTransaction(op) ==
    /\ resp'.op = op /\ resp'.by = "handler"
    /\ resp'.owner # NULL /\ resp'.status # 403

(* C23: the writes of a callback run through db.transaction are atomic: a   *)
(* failed unit leaves none of its writes and the caller gets one error; a   *)
(* unit whose statements all succeed is committed whole and reported as     *)
(* success. Checked on deleteRating and deleteReview, whose statements      *)
(* cannot fail once the row exists.                                         *)
C23_TransactionIsAtomic ==
    [][ /\ ReachedTransaction("deleteReview") =>
              /\ CurAfter \in {Cur, deleteReview_transaction(Cur, resp'.id)}
              /\ resp'.status = 200 <=> CurAfter = deleteReview_transaction(Cur, resp'.id)
              /\ resp'.status = 200
        /\ ReachedTransaction("deleteRating") =>
              LET reviewsResult == { rv \in consumer_reviews :
                                       rv.consumer_rating_id = resp'.id }
                  after == deleteRating_transaction(Cur, resp'.id, reviewsResult)
              IN /\ CurAfter \in {Cur, after}
                 /\ resp'.status = 200 <=> CurAfter = after
                 /\ resp'.status = 200 ]_vars

(* C24: the role resolver distinguishes three outcomes: a subject with a    *)
(* user row gets userId, primaryRoleId and roles (the primary role, then    *)
(* the secondary roles); a subject without a user row is answered 403, a    *)
(* missing or invalid token 401; and an unreachable database is answered    *)
(* with a 5xx, not as a missing user or a failed authentication.            *)
C24_ResolverOutcomes ==
    failure.stage = "resolved" =>
        LET rows == { u \in users : u.firebase_uid = failure.token.uid } IN
        IF failure.token.kind # "valid" THEN resp.status = 401
        ELSE IF failure.code # "" THEN resp.status \in 500..599
        ELSE IF rows = {} THEN resp.status = 403
        ELSE /\ resp.status = NEXT
             /\ \E u \in rows :
                   LET secondary == { s.role : s \in { x \in secondary_user_roles :
                                                         x.user_id = u.id } }
                       resolved == failure.user.roles
                   IN /\ failure.user.userId = u.id
                      /\ failure.user.primaryRoleId = u.primary_role_id
                      /\ resolved[1] = u.role
                      /\ { resolved[k] : k \in 2..Len(resolved) } = secondary
                      /\ Len(resolved) = 1 + Cardinality(secondary)

(* The rows a list request asks for: each flag the query string carries is  *)
(* one condition, a flag it does not carry is none.                         *)
SuppliedOnly(flag, column) == flag # "" => column = (flag = "true")

(* C25: filtering in the paged lists is additive over the supplied filters  *)
(* only: getAllAds without isActive counts every ads row, and               *)
(* getAllMessages counts the rows that match the flags it was given, so     *)
(* without isRead, isReplied and requiresReply it is not restricted to the  *)
(* rows where those flags are FALSE.                                        *)
C25_FiltersAreAdditive ==
    /\ listed.op = "getAllAds" =>
           listed.result.pagination.total =
               Cardinality({ a \in ads : SuppliedOnly(listed.query.isActive, a.is_active) })
    /\ listed.op = "getAllMessages" =>
           listed.result.pagination.total =
               Cardinality({ m \in messages :
                   /\ SuppliedOnly(listed.query.isRead, m.is_read)
                   /\ SuppliedOnly(listed.query.isReplied, m.is_replied)
                   /\ SuppliedOnly(listed.query.requiresReply, m.requires_reply)
                   /\ listed.query.category # "" => m.category = listed.query.category })

(* The users whose markUserAsDeleted call has completed: the flag is set,  *)
(* the deleted_users row is written and no call is between its statements.  *)
DeletedUsers ==
    { u.id : u \in { x \in users : /\ x.is_deleted
                                    /\ \E du \in deleted_users : du.user_id = x.id
                                    /\ \A d \in deletions : d.id # x.id } }

(* C26: once markUserAsDeleted(u) has completed, every later request with   *)
(* u's token is rejected by verifyToken: no handler answers a request on    *)
(* behalf of a user whose is_deleted flag is TRUE.                          *)
C26_DeletedUserIsLockedOut ==
    [][ (resp' # resp /\ resp'.actor \in DeletedUsers) => resp'.by = "verifyToken" ]_vars

(* C27: under every interleaving of two concurrent guest-login requests     *)
(* with the same firebaseUid, at most one user row with that firebase_uid   *)
(* exists afterwards and both requests return the same user id.             *)
C27_ConcurrentGuestLogins ==
    \A i, j \in 1..Len(calls) :
        ( /\ calls[i].awaits = "none" /\ calls[j].awaits = "none"
          /\ calls[i].firebaseUid = calls[j].firebaseUid )
        => /\ calls[i].user = calls[j].user
           /\ Cardinality({ u \in users : u.firebase_uid = calls[i].firebaseUid }) <= 1

C29_CreateRatingAllOrNothing ==
    [][ ( resp' # resp /\ resp'.op = "createRating" /\ resp'.by = "handler" )
        => IF resp'.status = 201
           THEN /\ Cardinality(consumer_ratings' \ consumer_ratings) = 1
                /\ \A r \in consumer_ratings' \ consumer_ratings :
                       Cardinality({ g \in consumer_glad_points' :
                                       /\ g.consumer_rating_id = r.id
                                       /\ g.user_id = resp'.actor
                                       /\ g.points = GladPointsAward }) = 1
                /\ Cardinality(consumer_glad_points' \ consumer_glad_points) = 1
           ELSE consumer_ratings' = consumer_ratings ]_vars

====
